---- MODULE Spec2Model ----
(***************************************************************************)
(* Hierarchical (User -> Account -> Resource) lock coordination over      *)
(* MySQL row locks: package hierlock (Manager.Acquire,                    *)
(* Manager.AcquireResources, LockHandle.Release, bucket hashing).         *)
(*                                                                         *)
(* Go strings are modelled as sequences of bytes, so that sort.Strings    *)
(* (bytewise lexicographic order) and FNV-1a (a fold over the bytes) are  *)
(* computed the way the program computes them.  32-bit words are kept as  *)
(* two 16-bit limbs <<hi, lo>>, every product reduced modulo 2^32.        *)
(*                                                                         *)
(* Records list their fields in the order in which the field names first  *)
(* occur in this module, the order in which TLC keeps them.               *)
(***************************************************************************)
EXTENDS Integers, Sequences, FiniteSets, TLC

(***************************************************************************)
(* Bounds of the model                                                     *)
(***************************************************************************)
\* longest resourceIDs list a caller passes to AcquireResources
MaxLeaves == 2

(***************************************************************************)
(* Program constants                                                       *)
(***************************************************************************)
lockBucketSpace == 10000000

LevelUser == 0

LevelAccount == 1

LevelResource == 2

\* a Level value outside the enumeration (Level is an int)
LevelUnknown == 3

(***************************************************************************)
(* Identifiers (byte strings)                                              *)
(***************************************************************************)
Empty == << >>

\* "u1", "u2"
u1 == <<117, 49>>

u2 == <<117, 50>>

\* "a1", "a2"
a1 == <<97, 49>>

a2 == <<97, 50>>

\* "r1", "r2"
r1 == <<114, 49>>

r2 == <<114, 50>>

\* "r8fk2j": FNV-1a("resource:u1:a1:r8fk2j") and FNV-1a("resource:u1:a1:r1")
\* agree modulo lockBucketSpace (bucket 185732), and "r1" < "r2" < "r8fk2j"
rc == <<114, 56, 102, 107, 50, 106>>

\* ":"
Colon == <<58>>

\* "user:"
PrefixUser == <<117, 115, 101, 114, 58>>

\* "account:"
PrefixAccount == <<97, 99, 99, 111, 117, 110, 116, 58>>

\* "resource:"
PrefixResource == <<114, 101, 115, 111, 117, 114, 99, 101, 58>>

UserIDs == {u1, u2}

AccountIDs == {a1, a2}

ResourceIDs == {r1, r2, rc}

(***************************************************************************)
(* hash/fnv New32a, Write, Sum32 on 16-bit limbs                           *)
(***************************************************************************)
Word16 == 65536

\* bit w (a power of two) of x XOR y
XorBit(x, y, w) == ((((x \div w) % 2) + ((y \div w) % 2)) % 2) * w

\* bitwise XOR of two bytes
Xor8(x, y) ==
    XorBit(x, y, 1) + XorBit(x, y, 2) + XorBit(x, y, 4) + XorBit(x, y, 8)
    + XorBit(x, y, 16) + XorBit(x, y, 32) + XorBit(x, y, 64) + XorBit(x, y, 128)

\* offset basis 0x811c9dc5
fnvOffset32 == <<33052, 40389>>

\* one step of FNV-1a: h ^= b; h *= 0x01000193 (= 2^24 + 403), modulo 2^32
fnvStep(h, b) ==
    LET lo  == (h[2] - (h[2] % 256)) + Xor8(h[2] % 256, b)
        hi  == h[1]
        plo == lo * 403
        phi == (hi * 403) + (plo \div Word16) + ((lo % 256) * 256)
    IN  <<phi % Word16, plo % Word16>>

RECURSIVE fnvRange(_, _, _, _)
\* the steps for bytes[from..to], in order; the range is halved and the left
\* half is computed before the right half starts, to keep the evaluation
\* shallow
fnvRange(h, bytes, from, to) ==
    IF from > to THEN h
    ELSE IF from = to THEN fnvStep(h, bytes[from])
    ELSE LET mid  == (from + to) \div 2
             left == fnvRange(h, bytes, from, mid)
         IN  IF left[1] >= 0 THEN fnvRange(left, bytes, mid + 1, to) ELSE left

\* h.Write(bytes)
fnvWrite(h, bytes) == fnvRange(h, bytes, 1, Len(bytes))

\* int(int32(h.Sum32())) % lockBucketSpace: the sum taken as a signed 32-bit
\* value before the remainder, which Go truncates towards zero
bucketSigned(prefix, s) ==
    LET h  == fnvWrite(fnvWrite(fnvOffset32, prefix), s)
        hi == IF h[1] >= 32768 THEN Word16 - h[1] ELSE h[1]
        t1 == (hi * 256) % lockBucketSpace
        t2 == (t1 * 16) % lockBucketSpace
        t3 == (t2 * 16) % lockBucketSpace
    IN  IF h[1] >= 32768
        THEN 0 - ((t3 - h[2]) % lockBucketSpace)
        ELSE (t3 + h[2]) % lockBucketSpace

\* int(h.Sum32() % lockBucketSpace): (hi * 2^16 + lo) modulo the bucket space,
\* the shift done in pieces that stay inside TLC's integers
bucket(prefix, s) ==
    LET h  == fnvWrite(fnvWrite(fnvOffset32, prefix), s)
        t1 == (h[1] * 256) % lockBucketSpace
        t2 == (t1 * 16) % lockBucketSpace
        t3 == (t2 * 16) % lockBucketSpace
    IN  (t3 + h[2]) % lockBucketSpace

userTarget(userID) ==
    [bucket |-> bucket(PrefixUser, userID), level |-> LevelUser]

accountTarget(userID, accountID) ==
    [bucket |-> bucket(PrefixAccount, userID \o Colon \o accountID),
     level |-> LevelAccount]

resourceTarget(userID, accountID, resourceID) ==
    [bucket |-> bucket(PrefixResource,
                       userID \o Colon \o accountID \o Colon \o resourceID),
     level |-> LevelResource]

(***************************************************************************)
(* lockKeys: the resolved single path, or a validation error               *)
(***************************************************************************)
\* lockKeys that resolves to the target row alone, without its ancestors
lockKeysTargetOnly(level, userID, accountID, resourceID) ==
    CASE level = LevelUser ->
           IF userID = Empty
           THEN [keys |-> << >>, err |-> "Validation"]
           ELSE [keys |-> <<userTarget(userID)>>, err |-> "nil"]
      [] level = LevelAccount ->
           IF userID = Empty \/ accountID = Empty
           THEN [keys |-> << >>, err |-> "Validation"]
           ELSE [keys |-> <<accountTarget(userID, accountID)>>, err |-> "nil"]
      [] level = LevelResource ->
           IF userID = Empty \/ accountID = Empty \/ resourceID = Empty
           THEN [keys |-> << >>, err |-> "Validation"]
           ELSE [keys |-> <<resourceTarget(userID, accountID, resourceID)>>,
                 err |-> "nil"]
      [] OTHER -> [keys |-> << >>, err |-> "Validation"]

\* a lockKeys whose Account case does not check accountID
lockKeysAccountUnchecked(level, userID, accountID, resourceID) ==
    CASE level = LevelUser ->
           IF userID = Empty
           THEN [keys |-> << >>, err |-> "Validation"]
           ELSE [keys |-> <<userTarget(userID)>>, err |-> "nil"]
      [] level = LevelAccount ->
           IF userID = Empty
           THEN [keys |-> << >>, err |-> "Validation"]
           ELSE [keys |-> <<userTarget(userID), accountTarget(userID, accountID)>>,
                 err |-> "nil"]
      [] level = LevelResource ->
           IF userID = Empty \/ accountID = Empty \/ resourceID = Empty
           THEN [keys |-> << >>, err |-> "Validation"]
           ELSE [keys |-> <<userTarget(userID), accountTarget(userID, accountID),
                            resourceTarget(userID, accountID, resourceID)>>,
                 err |-> "nil"]
      [] OTHER -> [keys |-> << >>, err |-> "Validation"]

\* a lockKeys whose Resource case lists the account target before the user
\* target
lockKeysAccountFirst(level, userID, accountID, resourceID) ==
    CASE level = LevelUser ->
           IF userID = Empty
           THEN [keys |-> << >>, err |-> "Validation"]
           ELSE [keys |-> <<userTarget(userID)>>, err |-> "nil"]
      [] level = LevelAccount ->
           IF userID = Empty \/ accountID = Empty
           THEN [keys |-> << >>, err |-> "Validation"]
           ELSE [keys |-> <<userTarget(userID), accountTarget(userID, accountID)>>,
                 err |-> "nil"]
      [] level = LevelResource ->
           IF userID = Empty \/ accountID = Empty \/ resourceID = Empty
           THEN [keys |-> << >>, err |-> "Validation"]
           ELSE [keys |-> <<accountTarget(userID, accountID), userTarget(userID),
                            resourceTarget(userID, accountID, resourceID)>>,
                 err |-> "nil"]
      [] OTHER -> [keys |-> << >>, err |-> "Validation"]

\* a lockKeys that requires all three identifiers at every level
lockKeysRequiringAll(level, userID, accountID, resourceID) ==
    IF userID = Empty \/ accountID = Empty \/ resourceID = Empty
    THEN [keys |-> << >>, err |-> "Validation"]
    ELSE CASE level = LevelUser -> [keys |-> <<userTarget(userID)>>, err |-> "nil"]
           [] level = LevelAccount ->
                [keys |-> <<userTarget(userID), accountTarget(userID, accountID)>>,
                 err |-> "nil"]
           [] level = LevelResource ->
                [keys |-> <<userTarget(userID), accountTarget(userID, accountID),
                            resourceTarget(userID, accountID, resourceID)>>,
                 err |-> "nil"]
           [] OTHER -> [keys |-> << >>, err |-> "Validation"]

lockKeys(level, userID, accountID, resourceID) ==
    CASE level = LevelUser ->
           IF userID = Empty
           THEN [keys |-> << >>, err |-> "Validation"]
           ELSE [keys |-> <<userTarget(userID)>>, err |-> "nil"]
      [] level = LevelAccount ->
           IF userID = Empty \/ accountID = Empty
           THEN [keys |-> << >>, err |-> "Validation"]
           ELSE [keys |-> <<userTarget(userID), accountTarget(userID, accountID)>>,
                 err |-> "nil"]
      [] level = LevelResource ->
           IF userID = Empty \/ accountID = Empty \/ resourceID = Empty
           THEN [keys |-> << >>, err |-> "Validation"]
           ELSE [keys |-> <<userTarget(userID), accountTarget(userID, accountID),
                            resourceTarget(userID, accountID, resourceID)>>,
                 err |-> "nil"]
      [] OTHER -> [keys |-> << >>, err |-> "Validation"]

(***************************************************************************)
(* sort.Strings on a copy of resourceIDs                                   *)
(***************************************************************************)
RECURSIVE StrLess(_, _)
\* Go's s < t on strings: bytewise lexicographic
StrLess(s, t) ==
    IF t = << >> THEN FALSE
    ELSE IF s = << >> THEN TRUE
    ELSE IF Head(s) # Head(t) THEN Head(s) < Head(t)
    ELSE StrLess(Tail(s), Tail(t))

RECURSIVE InsertSorted(_, _)
InsertSorted(x, sorted) ==
    IF sorted = << >> THEN <<x>>
    ELSE IF StrLess(Head(sorted), x) \/ Head(sorted) = x
         THEN <<Head(sorted)>> \o InsertSorted(x, Tail(sorted))
         ELSE <<x>> \o sorted

\* an AcquireResources that locks the IDs in the order the caller gave
SortStringsOmitted(ids) == ids

RECURSIVE SortStrings(_)
SortStrings(ids) ==
    IF ids = << >> THEN << >>
    ELSE InsertSorted(Head(ids), SortStrings(Tail(ids)))

(***************************************************************************)
(* Callers and the inputs they draw                                        *)
(***************************************************************************)
\* domain of the per-caller variables
AllCallers == {"T1", "T2", "T3"}

\* the concurrent callers of the main specification
Callers == {"T1", "T2"}

ListsOver(S, n) == UNION {[1..k -> S] : k \in 1..n}

\* calls that fail the argument checks of lockKeys
InvalidAcquireInputs ==
    {<<LevelUser, Empty, Empty, Empty>>, <<LevelAccount, u1, Empty, Empty>>,
     <<LevelResource, u1, a1, Empty>>, <<LevelUnknown, u1, a1, r1>>,
     <<LevelAccount, Empty, a1, Empty>>, <<LevelResource, Empty, a1, r1>>,
     <<LevelResource, u1, Empty, r1>>}

\* (level, userID, accountID, resourceID) of an Acquire call: users, accounts
\* and resources of a two-user hierarchy (one pair of resources, r1 and rc,
\* with colliding buckets), and the calls that fail validation
AcquireInputs ==
    {<<LevelUser, u, Empty, Empty>> : u \in UserIDs}
    \cup {<<LevelAccount, u1, a, Empty>> : a \in AccountIDs}
    \cup {<<LevelAccount, u2, a1, Empty>>}
    \cup {<<LevelResource, u1, a1, r>> : r \in ResourceIDs}
    \cup {<<LevelResource, u1, a2, r1>>, <<LevelResource, u2, a1, r1>>}
    \cup InvalidAcquireInputs

\* calls at LevelUser and LevelAccount with and without identifiers below the
\* requested level, and with the required identifier missing
LowerLevelInputs ==
    {<<LevelUser, u, a, r>> : u \in {u1, Empty}, a \in {Empty, a1}, r \in {Empty, r1}}
    \cup {<<LevelAccount, u1, a, r>> : a \in {a1, Empty}, r \in {Empty, r1, r2}}

\* calls that fail the argument checks of AcquireResources
InvalidAcquireResourcesInputs ==
    {<<Empty, a1, <<r1>>>>, <<u1, Empty, <<r1>>>>, <<u1, a1, << >>>>,
     <<u1, a1, <<r1, Empty>>>>}

\* no ID occurs twice in the list
Distinct(ids) == \A i, j \in 1..Len(ids) : i # j => ids[i] # ids[j]

\* (userID, accountID, resourceIDs) of an AcquireResources call: every list
\* of up to MaxLeaves different resource IDs, in every order, a list that
\* names a resource twice, and the calls that fail validation
AcquireResourcesInputs ==
    {<<u1, a1, rs>> : rs \in {l \in ListsOver(ResourceIDs, MaxLeaves) : Distinct(l)}}
    \cup {<<u1, a1, <<r1, r1>>>>}
    \cup InvalidAcquireResourcesInputs

\* every row of hier_lock_buckets the calls above can name
AllRows ==
    {userTarget(u) : u \in UserIDs}
    \cup {accountTarget(u, a) : u \in UserIDs, a \in AccountIDs}
    \cup {resourceTarget(u, a, r) : u \in UserIDs, a \in AccountIDs, r \in ResourceIDs}

\* paths of LockManager.Lock: [User], [User, Account], [User, Account, Resource]
LockPaths ==
    {<<"user1">>, <<"user1", "accountA">>,
     <<"user1", "accountA", "resourceX">>, <<"user1", "accountA", "resourceY">>}

\* the first k elements of path
Prefix(path, k) == SubSeq(path, 1, k)

\* the LockNodes below the root that these paths reach
TreeNodes == UNION {{Prefix(path, k) : k \in 1..Len(path)} : path \in LockPaths}

NoCall ==
    [userID |-> Empty, level |-> LevelUser, accountID |-> Empty,
     resourceID |-> Empty, op |-> "none", resourceIDs |-> << >>]

(***************************************************************************)
(* State                                                                   *)
(***************************************************************************)
VARIABLES
    db,       \* Manager.db: "open" or "nil"
    rows,     \* the provisioned rows (level, bucket) of hier_lock_buckets
    pc,       \* per caller: idle, acquiring (about to issue the next lockRow),
              \* waiting (lockRow suspended in the substrate), held (a handle was
              \* returned), failed (nil handle and an error were returned),
              \* released (Release was called on the returned handle)
    call,     \* per caller: the arguments of the call in progress or returned
    reqs,     \* per caller: the ordered lock requests of that call
    idx,      \* per caller: how many of reqs have been granted
    locks,    \* per caller: the row locks its transaction holds
    waitq,    \* callers suspended in the substrate, in arrival order
    ctxDone,  \* per caller: the context passed to the call is cancelled/expired
    tx,       \* per caller: its sql.Tx: "none", "open", "done"
    handle,   \* per caller: the *LockHandle it has: "nil", "zero" (tx == nil), "tx"
    err,      \* per caller: the error Acquire / AcquireResources returned
    relErr,   \* per caller: the error the last Release returned
    rel,      \* per caller: what the last Release call was made on: "none" (no
              \* call yet), "nil" (a nil handle), "zero" (a handle without tx),
              \* "open" (a handle whose tx was open), "done" (a handle never
              \* released whose tx had finished), "again" (a released handle)
    callerIDs \* per caller: the contents of the resourceIDs slice it passed

\* the in-process LockManager (a tree of LockNodes) and its Lock calls
VARIABLES
    children,       \* the LockNodes created so far, each named by its path
    shared,         \* per node: LockNode.shared
    exclusiveFlag,  \* per node: LockNode.exclusive
    rlocked,        \* per node: the Lock calls that hold its mu.RLock()
    lockPc,         \* per Lock call: idle, loop (in the for loop), incr (about
                    \* to RLock and read shared), incrWrite (about to write
                    \* shared and RUnlock), leaf (after the loop), locked (Lock
                    \* returned), unlocking (in the unlock loop), unlocked
    lockPath,       \* per Lock call: its path argument
    lockI,          \* per Lock call: path elements walked / nodes yet to unlock
    lockTmp,        \* per Lock call: the value of n.shared it read for n.shared++
    nodeCount,      \* per path: how many LockNode objects were made for that name;
                    \* the parent's map holds the last one
    lockChild       \* per caller: the object in its variable child, 0 when !ok

treeVars == <<nodeCount, lockChild, children, shared, exclusiveFlag, rlocked, lockPc, lockPath, lockI,
              lockTmp>>

managerVars == <<callerIDs, db, rows, pc, call, reqs, idx, locks, waitq, ctxDone, tx, handle,
                 err, relErr, rel>>

vars == <<callerIDs, db, rows, pc, call, reqs, idx, locks, waitq, ctxDone, tx, handle, err,
          relErr, rel, treeVars>>

InitWithRows(provisioned) ==
    /\ db \in {"open", "nil"}
    /\ rows = provisioned
    /\ pc = [p \in AllCallers |-> "idle"]
    /\ call = [p \in AllCallers |-> NoCall]
    /\ reqs = [p \in AllCallers |-> << >>]
    /\ idx = [p \in AllCallers |-> 0]
    /\ locks = [p \in AllCallers |-> {}]
    /\ waitq = << >>
    /\ ctxDone = [p \in AllCallers |-> FALSE]
    /\ tx = [p \in AllCallers |-> "none"]
    /\ handle = [p \in AllCallers |-> "nil"]
    /\ err = [p \in AllCallers |-> "nil"]
    /\ relErr = [p \in AllCallers |-> "nil"]
    /\ rel = [p \in AllCallers |-> "none"]
    /\ callerIDs = [p \in AllCallers |-> << >>]
    /\ children = {}
    /\ shared = [n \in TreeNodes |-> 0]
    /\ exclusiveFlag = [n \in TreeNodes |-> FALSE]
    /\ rlocked = [n \in TreeNodes |-> {}]
    /\ lockPc = [g \in AllCallers |-> "idle"]
    /\ lockPath = [g \in AllCallers |-> << >>]
    /\ lockI = [g \in AllCallers |-> 0]
    /\ lockTmp = [g \in AllCallers |-> 0]
    /\ nodeCount = [n \in TreeNodes |-> 0]
    /\ lockChild = [g \in AllCallers |-> 0]

\* the state after NewManager(db), every bucket row provisioned
Init == InitWithRows(AllRows)

\* the rows of the u1/a1 paths, one of which may not be provisioned
MissingRowCandidates ==
    {userTarget(u1), accountTarget(u1, a1), resourceTarget(u1, a1, r2)}

\* the state after NewManager(db) when one bucket row was not provisioned
InitMissingRow == \E t \in MissingRowCandidates : InitWithRows(AllRows \ {t})

(***************************************************************************)
(* The ordered lock requests of a call                                     *)
(***************************************************************************)
\* Acquire's loop with isTarget always true: every key Exclusive
AcquireRequestsAllExclusive(keys) ==
    [i \in 1..Len(keys) |-> [target |-> keys[i], exclusive |-> TRUE]]

\* Acquire's loop with isTarget never true: every key Shared
AcquireRequestsAllShared(keys) ==
    [i \in 1..Len(keys) |-> [target |-> keys[i], exclusive |-> FALSE]]

\* Acquire's loop with isTarget true on the first key instead of the last
AcquireRequestsFirstExclusive(keys) ==
    [i \in 1..Len(keys) |-> [target |-> keys[i], exclusive |-> (i = 1)]]

\* Acquire's loop: every key Shared, the last one (isTarget) Exclusive
AcquireRequests(keys) ==
    [i \in 1..Len(keys) |-> [target |-> keys[i], exclusive |-> (i = Len(keys))]]

\* ordered := resourceIDs; sort.Strings(ordered): the caller's slice is sorted
orderedInPlace(resourceIDs) == <<SortStrings(resourceIDs), SortStrings(resourceIDs)>>

\* ordered := append([]string{}, resourceIDs...); sort.Strings(ordered): the
\* pair of ordered and of the caller's slice after the two statements
orderedCopy(resourceIDs) == <<SortStrings(resourceIDs), resourceIDs>>

\* AcquireResources that locks the resources in the caller's order
AcquireResourcesRequestsUnsorted(userID, accountID, resourceIDs) ==
    <<[target |-> userTarget(userID), exclusive |-> FALSE],
      [target |-> accountTarget(userID, accountID), exclusive |-> FALSE]>>
    \o [i \in 1..Len(resourceIDs) |->
           [target |-> resourceTarget(userID, accountID, resourceIDs[i]),
            exclusive |-> TRUE]]

\* an AcquireResources that takes the account row and the resources only
AcquireResourcesRequestsWithoutUser(userID, accountID, resourceIDs) ==
    LET ordered == SortStrings(resourceIDs)
    IN  <<[target |-> accountTarget(userID, accountID), exclusive |-> FALSE]>>
        \o [i \in 1..Len(ordered) |->
               [target |-> resourceTarget(userID, accountID, ordered[i]),
                exclusive |-> TRUE]]

\* an AcquireResources that hashes a resource ID without its ancestors' IDs
AcquireResourcesRequestsBareLeaf(userID, accountID, resourceIDs) ==
    LET ordered == SortStrings(resourceIDs)
    IN  <<[target |-> userTarget(userID), exclusive |-> FALSE],
          [target |-> accountTarget(userID, accountID), exclusive |-> FALSE]>>
        \o [i \in 1..Len(ordered) |->
               [target |-> [bucket |-> bucket(PrefixResource, ordered[i]),
                            level |-> LevelResource],
                exclusive |-> TRUE]]

\* an AcquireResources that locks the account row Exclusive
AcquireResourcesRequestsAccountExclusive(userID, accountID, resourceIDs) ==
    LET ordered == SortStrings(resourceIDs)
    IN  <<[target |-> userTarget(userID), exclusive |-> FALSE],
          [target |-> accountTarget(userID, accountID), exclusive |-> TRUE]>>
        \o [i \in 1..Len(ordered) |->
               [target |-> resourceTarget(userID, accountID, ordered[i]),
                exclusive |-> TRUE]]

\* AcquireResources: user and account Shared, then each resource of the
\* sorted copy Exclusive
AcquireResourcesRequests(userID, accountID, resourceIDs) ==
    LET ordered == orderedCopy(resourceIDs)[1]
    IN  <<[target |-> userTarget(userID), exclusive |-> FALSE],
          [target |-> accountTarget(userID, accountID), exclusive |-> FALSE]>>
        \o [i \in 1..Len(ordered) |->
               [target |-> resourceTarget(userID, accountID, ordered[i]),
                exclusive |-> TRUE]]

\* argument checks without the loop over the elements of resourceIDs
ResourcesValidElementsUnchecked(userID, accountID, resourceIDs) ==
    /\ userID # Empty
    /\ accountID # Empty
    /\ Len(resourceIDs) # 0

\* AcquireResources' argument checks
ResourcesValid(userID, accountID, resourceIDs) ==
    /\ userID # Empty
    /\ accountID # Empty
    /\ Len(resourceIDs) # 0
    /\ \A i \in 1..Len(resourceIDs) : resourceIDs[i] # Empty

\* keys, err := lockKeys(level, userID, accountID, resourceID), resolved once
\* for every call the model draws
ResolvedKeys ==
    [in \in AcquireInputs \cup LowerLevelInputs |->
        lockKeys(in[1], in[2], in[3], in[4])]

\* ordered and the caller's slice after the copy and the sort, resolved once
\* for every list the model draws
OrderedCopies ==
    [ids \in {in[3] : in \in AcquireResourcesInputs} |-> orderedCopy(ids)]

\* the argument checks and the request sequence of AcquireResources, resolved
\* once for every call the model draws
ResolvedResources ==
    [in \in AcquireResourcesInputs |->
        IF ResourcesValid(in[1], in[2], in[3])
        THEN [err |-> "nil", reqs |-> AcquireResourcesRequests(in[1], in[2], in[3])]
        ELSE [err |-> "Validation", reqs |-> << >>]]

(***************************************************************************)
(* The substrate: InnoDB row locks taken by SELECT ... FOR SHARE / FOR     *)
(* UPDATE inside a transaction, without NOWAIT                             *)
(***************************************************************************)
\* the request caller p has issued or is about to issue
Pending(p) == reqs[p][idx[p] + 1]

Position(q) == CHOOSE i \in 1..Len(waitq) : waitq[i] = q

InQueue(q) == \E i \in 1..Len(waitq) : waitq[i] = q

\* q's suspended request is queued ahead of p's request
Ahead(q, p) == InQueue(q) /\ (InQueue(p) => Position(q) < Position(p))

\* row locks under which only two FOR UPDATE requests exclude each other
ModesConflictExclusiveOnly(ex1, ex2) == ex1 /\ ex2

\* two requests for rows: S/S is compatible, anything with X is not
ModesConflict(ex1, ex2) == ex1 \/ ex2

\* q's transaction stands in the way of request r of p: it holds the row in
\* an incompatible mode, or waits for it in an incompatible mode ahead of p
Blocks(q, p, r) ==
    /\ q # p
    /\ \/ \E l \in locks[q] : l.target = r.target /\ ModesConflict(l.exclusive, r.exclusive)
       \/ /\ pc[q] = "waiting"
          /\ Ahead(q, p)
          /\ Pending(q).target = r.target
          /\ ModesConflict(Pending(q).exclusive, r.exclusive)

\* a substrate that queues every request, also for a row the transaction holds
AlreadyHoldsNever(p, r) == FALSE

\* p's own transaction already holds the row at least as strongly
AlreadyHolds(p, r) ==
    \E l \in locks[p] : l.target = r.target /\ (l.exclusive \/ ~r.exclusive)

Grantable(p, r) ==
    AlreadyHolds(p, r) \/ ~\E q \in AllCallers : Blocks(q, p, r)

\* the waits-for relation among suspended callers
WaitsFor(p, q) == pc[p] = "waiting" /\ Blocks(q, p, Pending(p))

\* p is part of a cyclic wait (p waits for s[2], ..., s[n] waits for p), which
\* the substrate's detector breaks
InCycle(p) ==
    /\ pc[p] = "waiting"
    /\ \E n \in 2..Cardinality(AllCallers) :
          \E s \in [1..n -> AllCallers] :
              /\ s[1] = p
              /\ \A i \in 1..(n - 1) : WaitsFor(s[i], s[i + 1])
              /\ WaitsFor(s[n], p)

Dequeue(q) == SelectSeq(waitq, LAMBDA x : x # q)

(***************************************************************************)
(* Manager.Acquire and Manager.AcquireResources                            *)
(***************************************************************************)
\* a Rollback that marks the transaction finished and leaves its row locks
txRollbackKeepsLocks(p) ==
    /\ locks' = locks
    /\ tx' = [tx EXCEPT ![p] = "done"]

\* tx.Rollback(): the transaction ends and the substrate drops its row locks
txRollback(p) ==
    /\ locks' = [locks EXCEPT ![p] = {}]
    /\ tx' = [tx EXCEPT ![p] = "done"]

\* a rollback closure that rolls back, opens a new transaction and starts the
\* path again instead of returning the error
rollbackThenRetry(p, cause) ==
    /\ locks' = [locks EXCEPT ![p] = {}]
    /\ idx' = [idx EXCEPT ![p] = 0]
    /\ pc' = [pc EXCEPT ![p] = "acquiring"]
    /\ waitq' = Dequeue(p)
    /\ UNCHANGED <<callerIDs, treeVars, db, rows, call, reqs, ctxDone, tx, handle, err, relErr, rel>>

\* a rollback closure that returns (nil, cause) and leaves the transaction open
rollbackWithoutTxRollback(p, cause) ==
    /\ pc' = [pc EXCEPT ![p] = "failed"]
    /\ handle' = [handle EXCEPT ![p] = "nil"]
    /\ err' = [err EXCEPT ![p] = cause]
    /\ waitq' = Dequeue(p)
    /\ UNCHANGED <<callerIDs, treeVars, db, rows, call, reqs, idx, ctxDone, relErr, rel, locks, tx>>

\* the rollback closure: roll the transaction back, return (nil, cause)
rollback(p, cause) ==
    /\ txRollback(p)
    /\ pc' = [pc EXCEPT ![p] = "failed"]
    /\ handle' = [handle EXCEPT ![p] = "nil"]
    /\ err' = [err EXCEPT ![p] = cause]
    /\ waitq' = Dequeue(p)
    /\ UNCHANGED <<callerIDs, treeVars, db, rows, call, reqs, idx, ctxDone, relErr, rel>>

\* return (nil, cause) before any transaction was opened
ReturnEarly(p, cause) ==
    /\ pc' = [pc EXCEPT ![p] = "failed"]
    /\ err' = [err EXCEPT ![p] = cause]
    /\ reqs' = [reqs EXCEPT ![p] = << >>]
    /\ tx' = [tx EXCEPT ![p] = "none"]

\* the part of a call before its first lock request: the nil checks, the
\* argument checks (argErr), BeginTx (beginOK: whether it returned a Tx)
Begin(p, c, rq, argErr, beginOK) ==
    /\ pc[p] = "idle"
    /\ call' = [call EXCEPT ![p] = c]
    /\ ctxDone' = [ctxDone EXCEPT ![p] = FALSE]
    /\ handle' = [handle EXCEPT ![p] = "nil"]
    /\ idx' = [idx EXCEPT ![p] = 0]
    /\ rel' = [rel EXCEPT ![p] = "none"]
    /\ relErr' = [relErr EXCEPT ![p] = "nil"]
    /\ IF db = "nil" THEN ReturnEarly(p, "NoDB")
       ELSE IF argErr # "nil" THEN ReturnEarly(p, argErr)
       ELSE IF ~beginOK THEN ReturnEarly(p, "BeginTx")
       ELSE /\ pc' = [pc EXCEPT ![p] = "acquiring"]
            /\ err' = [err EXCEPT ![p] = "nil"]
            /\ reqs' = [reqs EXCEPT ![p] = rq]
            /\ tx' = [tx EXCEPT ![p] = "open"]
    /\ UNCHANGED <<treeVars, db, rows, locks, waitq>>

Acquire(p, level, userID, accountID, resourceID, beginOK) ==
    /\ UNCHANGED callerIDs
    /\ LET k == ResolvedKeys[<<level, userID, accountID, resourceID>>]
       IN  Begin(p,
                 [userID |-> userID, level |-> level, accountID |-> accountID,
                  resourceID |-> resourceID, op |-> "Acquire",
                  resourceIDs |-> << >>],
                 AcquireRequests(k.keys), k.err, beginOK)

AcquireResources(p, userID, accountID, resourceIDs, beginOK) ==
    /\ callerIDs' = [callerIDs EXCEPT ![p] = OrderedCopies[resourceIDs][2]]
    /\ LET k == ResolvedResources[<<userID, accountID, resourceIDs>>]
       IN  Begin(p,
                 [userID |-> userID, level |-> LevelResource,
                  accountID |-> accountID, resourceID |-> Empty,
                  op |-> "AcquireResources", resourceIDs |-> resourceIDs],
                 k.reqs, k.err, beginOK)

\* a loop that returns the handle one request before the last
GrantedReturningEarly(p) ==
    /\ locks' = [locks EXCEPT ![p] = @ \cup {Pending(p)}]
    /\ idx' = [idx EXCEPT ![p] = @ + 1]
    /\ waitq' = Dequeue(p)
    /\ IF idx[p] + 2 >= Len(reqs[p])
       THEN /\ pc' = [pc EXCEPT ![p] = "held"]
            /\ handle' = [handle EXCEPT ![p] = "tx"]
       ELSE /\ pc' = [pc EXCEPT ![p] = "acquiring"]
            /\ UNCHANGED handle
    /\ UNCHANGED <<callerIDs, treeVars, db, rows, call, reqs, ctxDone, tx, err, relErr, rel>>

\* lockRow returned nil for request idx+1: go on to the next request, or
\* return &LockHandle{tx: tx} after the last one
Granted(p) ==
    /\ locks' = [locks EXCEPT ![p] = @ \cup {Pending(p)}]
    /\ idx' = [idx EXCEPT ![p] = @ + 1]
    /\ waitq' = Dequeue(p)
    /\ IF idx[p] + 1 = Len(reqs[p])
       THEN /\ pc' = [pc EXCEPT ![p] = "held"]
            /\ handle' = [handle EXCEPT ![p] = "tx"]
       ELSE /\ pc' = [pc EXCEPT ![p] = "acquiring"]
            /\ UNCHANGED handle
    /\ UNCHANGED <<callerIDs, treeVars, db, rows, call, reqs, ctxDone, tx, err, relErr, rel>>

\* a lockRow outside the call's transaction: a statement that has to wait
\* runs after the row locks granted so far were given up
LockRowDroppingLocksOnWait(p) ==
    /\ pc[p] = "acquiring"
    /\ IF ctxDone[p] THEN rollback(p, "Canceled")
       ELSE IF Pending(p).target \notin rows THEN rollback(p, "NoRows")
       ELSE IF Grantable(p, Pending(p)) THEN Granted(p)
       ELSE /\ pc' = [pc EXCEPT ![p] = "waiting"]
            /\ waitq' = Append(waitq, p)
            /\ locks' = [locks EXCEPT ![p] = {}]
            /\ UNCHANGED <<callerIDs, treeVars, db, rows, call, reqs, idx, ctxDone, tx,
                           handle, err, relErr, rel>>

\* a lockRow whose SELECT carries NOWAIT: a conflicting request is an error
LockRowNowait(p) ==
    /\ pc[p] = "acquiring"
    /\ IF ctxDone[p] THEN rollback(p, "Canceled")
       ELSE IF Pending(p).target \notin rows THEN rollback(p, "NoRows")
       ELSE IF Grantable(p, Pending(p)) THEN Granted(p)
       ELSE rollback(p, "Conflict")

\* a lockRow that ignores the error of Scan: a missing row counts as locked
LockRowIgnoringScanError(p) ==
    /\ pc[p] = "acquiring"
    /\ IF ctxDone[p] THEN rollback(p, "Canceled")
       ELSE IF Grantable(p, Pending(p)) THEN Granted(p)
       ELSE /\ pc' = [pc EXCEPT ![p] = "waiting"]
            /\ waitq' = Append(waitq, p)
            /\ UNCHANGED <<callerIDs, treeVars, db, rows, call, reqs, idx, locks, ctxDone, tx, handle,
                           err, relErr, rel>>

\* lockRow issues the SELECT for the next request: an error at once (context
\* already done, no such row), the row lock at once, or suspension
LockRow(p) ==
    /\ pc[p] = "acquiring"
    /\ IF ctxDone[p] THEN rollback(p, "Canceled")
       ELSE IF Pending(p).target \notin rows THEN rollback(p, "NoRows")
       ELSE IF Grantable(p, Pending(p)) THEN Granted(p)
       ELSE /\ pc' = [pc EXCEPT ![p] = "waiting"]
            /\ waitq' = Append(waitq, p)
            /\ UNCHANGED <<callerIDs, treeVars, db, rows, call, reqs, idx, locks, ctxDone, tx, handle,
                           err, relErr, rel>>

\* a lockRow whose query does not carry ctx: granted although ctx is done
WakeIgnoringContext(p) ==
    /\ pc[p] = "waiting"
    /\ Grantable(p, Pending(p))
    /\ Granted(p)

\* the substrate grants the row lock to a suspended lockRow
Wake(p) ==
    /\ pc[p] = "waiting"
    /\ ~ctxDone[p]
    /\ Grantable(p, Pending(p))
    /\ Granted(p)

\* a detector that reports error 1213 to a suspended call outside any cycle
LockRowDeadlockAnyWaiter(p) ==
    /\ pc[p] = "waiting"
    /\ rollback(p, "Deadlock")

\* the substrate's cycle detector aborts p's statement (MySQL error 1213)
LockRowDeadlock(p) ==
    /\ InCycle(p)
    /\ rollback(p, "Deadlock")

\* the lock wait exceeds innodb_lock_wait_timeout (MySQL error 1205)
LockRowTimeout(p) ==
    /\ pc[p] = "waiting"
    /\ rollback(p, "Timeout")

\* the query fails for any other reason (connection lost, server error)
LockRowFault(p) ==
    /\ pc[p] \in {"acquiring", "waiting"}
    /\ rollback(p, "Fault")

\* a cancelled query whose error is returned without the rollback closure
LockRowCanceledWithoutRollback(p) ==
    /\ pc[p] = "waiting"
    /\ ctxDone[p]
    /\ rollbackWithoutTxRollback(p, "Canceled")

\* the context's cancellation reaches the suspended query
LockRowCanceled(p) ==
    /\ pc[p] = "waiting"
    /\ ctxDone[p]
    /\ rollback(p, "Canceled")

(***************************************************************************)
(* The context passed to the call, and database/sql's watcher of it        *)
(***************************************************************************)
\* the caller cancels the context, or its deadline expires
CtxCancel(p) ==
    /\ pc[p] \in {"acquiring", "waiting", "held"}
    /\ ~ctxDone[p]
    /\ ctxDone' = [ctxDone EXCEPT ![p] = TRUE]
    /\ UNCHANGED <<callerIDs, treeVars, db, rows, pc, call, reqs, idx, locks, waitq, tx, handle, err,
                   relErr, rel>>

\* BeginTx(ctx, ...) ties the transaction to ctx: once ctx is done the sql
\* package rolls the transaction back
TxAwaitDone(p) ==
    /\ pc[p] = "held"
    /\ ctxDone[p]
    /\ tx[p] = "open"
    /\ txRollback(p)
    /\ UNCHANGED <<callerIDs, treeVars, db, rows, pc, call, reqs, idx, waitq, ctxDone, handle, err,
                   relErr, rel>>

(***************************************************************************)
(* LockHandle.Release                                                      *)
(***************************************************************************)
\* Release that forgets the handle and does not roll the transaction back
ReleaseWithoutRollback(p) ==
    /\ pc[p] \in {"idle", "held", "released"}
    /\ IF handle[p] \in {"nil", "zero"}
       THEN /\ rel' = [rel EXCEPT ![p] = handle[p]]
            /\ UNCHANGED pc
       ELSE /\ pc' = [pc EXCEPT ![p] = "released"]
            /\ rel' = [rel EXCEPT ![p] = IF pc[p] = "released" THEN "again"
                                         ELSE IF tx[p] = "open" THEN "open"
                                         ELSE "done"]
    /\ relErr' = [relErr EXCEPT ![p] = "nil"]
    /\ UNCHANGED <<callerIDs, treeVars, db, rows, call, reqs, idx, waitq, ctxDone, handle, err, locks, tx>>

\* h == nil || h.tx == nil: return nil; otherwise return h.tx.Rollback(),
\* which is sql.ErrTxDone when the transaction is already finished
Release(p) ==
    /\ pc[p] \in {"idle", "held", "released"}
    /\ IF handle[p] \in {"nil", "zero"}
       THEN /\ rel' = [rel EXCEPT ![p] = handle[p]]
            /\ relErr' = [relErr EXCEPT ![p] = "nil"]
            /\ UNCHANGED <<pc, locks, tx>>
       ELSE /\ pc' = [pc EXCEPT ![p] = "released"]
            /\ rel' = [rel EXCEPT ![p] = IF pc[p] = "released" THEN "again"
                                         ELSE IF tx[p] = "open" THEN "open"
                                         ELSE "done"]
            /\ IF tx[p] = "open"
               THEN /\ txRollback(p)
                    /\ relErr' = [relErr EXCEPT ![p] = "nil"]
               ELSE /\ relErr' = [relErr EXCEPT ![p] = "TxDone"]
                    /\ UNCHANGED <<locks, tx>>
    /\ UNCHANGED <<callerIDs, treeVars, db, rows, call, reqs, idx, waitq, ctxDone, handle, err>>

\* a caller makes a zero-value handle: &LockHandle{}
ZeroHandle(p) ==
    /\ pc[p] = "idle"
    /\ handle[p] = "nil"
    /\ rel[p] = "none"
    /\ handle' = [handle EXCEPT ![p] = "zero"]
    /\ UNCHANGED <<callerIDs, treeVars, db, rows, pc, call, reqs, idx, locks, waitq, ctxDone, tx, err,
                   relErr, rel>>

\* the caller drops what the last call returned and is ready to call again
Forget(p) ==
    /\ \/ pc[p] \in {"failed", "released"}
       \/ pc[p] = "idle" /\ (handle[p] # "nil" \/ rel[p] # "none")
    /\ pc' = [pc EXCEPT ![p] = "idle"]
    /\ call' = [call EXCEPT ![p] = NoCall]
    /\ reqs' = [reqs EXCEPT ![p] = << >>]
    /\ idx' = [idx EXCEPT ![p] = 0]
    /\ ctxDone' = [ctxDone EXCEPT ![p] = FALSE]
    /\ tx' = [tx EXCEPT ![p] = "none"]
    /\ handle' = [handle EXCEPT ![p] = "nil"]
    /\ err' = [err EXCEPT ![p] = "nil"]
    /\ relErr' = [relErr EXCEPT ![p] = "nil"]
    /\ rel' = [rel EXCEPT ![p] = "none"]
    /\ callerIDs' = [callerIDs EXCEPT ![p] = << >>]
    /\ UNCHANGED <<treeVars, db, rows, locks, waitq>>

(***************************************************************************)
(* Specifications                                                          *)
(***************************************************************************)
CallAcquire(p) ==
    \E in \in AcquireInputs, beginOK \in BOOLEAN :
        Acquire(p, in[1], in[2], in[3], in[4], beginOK)

CallAcquireResources(p) ==
    \E in \in AcquireResourcesInputs, beginOK \in BOOLEAN :
        AcquireResources(p, in[1], in[2], in[3], beginOK)

Next ==
    \E p \in Callers :
        \/ CallAcquire(p)
        \/ CallAcquireResources(p)
        \/ LockRow(p)
        \/ Wake(p)
        \/ LockRowDeadlock(p)
        \/ LockRowTimeout(p)
        \/ LockRowFault(p)
        \/ LockRowCanceled(p)
        \/ CtxCancel(p)
        \/ TxAwaitDone(p)
        \/ Release(p)
        \/ ZeroHandle(p)
        \/ Forget(p)

Spec == Init /\ [][Next]_vars

\* Two callers, each making one call, on one account whose resources have
\* different buckets; the substrate never fails, a running lockRow issues its
\* query and a grantable suspended query is granted
FairAcquireInputs ==
    {<<LevelUser, u1, Empty, Empty>>, <<LevelAccount, u1, a1, Empty>>,
     <<LevelResource, u1, a1, r1>>}

FairResourcesInputs ==
    {in \in AcquireResourcesInputs \ InvalidAcquireResourcesInputs :
        \A i \in 1..Len(in[3]) : in[3][i] # rc}

CallFair(p) ==
    \/ \E in \in FairAcquireInputs : Acquire(p, in[1], in[2], in[3], in[4], TRUE)
    \/ \E in \in FairResourcesInputs : AcquireResources(p, in[1], in[2], in[3], TRUE)

NextFair ==
    \E p \in Callers :
        \/ CallFair(p)
        \/ LockRow(p)
        \/ Wake(p)
        \/ Release(p)

FairSpec ==
    /\ Init
    /\ [][NextFair]_vars
    /\ \A p \in Callers : WF_vars(LockRow(p)) /\ WF_vars(Wake(p))

\* Three concurrent callers of Acquire, on entities of which several share
\* their ancestors; the substrate never fails
SharedInputs ==
    {<<LevelResource, u1, a1, r1>>, <<LevelResource, u1, a1, r2>>,
     <<LevelResource, u1, a2, r1>>, <<LevelResource, u2, a1, r1>>,
     <<LevelAccount, u1, a2, Empty>>, <<LevelUser, u2, Empty, Empty>>}

CallAcquireShared(p) ==
    \E in \in SharedInputs : Acquire(p, in[1], in[2], in[3], in[4], TRUE)

Next3 ==
    \E p \in AllCallers :
        \/ CallAcquireShared(p)
        \/ LockRow(p)
        \/ Wake(p)
        \/ Release(p)
        \/ Forget(p)

Spec3 == Init /\ [][Next3]_vars

\* Three concurrent callers of Acquire at all three levels of one path, with
\* two resources whose identifiers hash to one bucket; the substrate never
\* fails
PathInputs ==
    {<<LevelUser, u1, Empty, Empty>>, <<LevelAccount, u1, a1, Empty>>,
     <<LevelResource, u1, a1, r1>>, <<LevelResource, u1, a1, rc>>,
     <<LevelResource, u1, a1, r2>>}

CallAcquirePath(p) ==
    \E in \in PathInputs : Acquire(p, in[1], in[2], in[3], in[4], TRUE)

NextPaths ==
    \E p \in AllCallers :
        \/ CallAcquirePath(p)
        \/ LockRow(p)
        \/ Wake(p)
        \/ Release(p)
        \/ Forget(p)

SpecPaths == Init /\ [][NextPaths]_vars

\* Two goroutines of TestHierarchy_Deadlock_UnorderedMultiResource: each locks
\* the user and the account Shared and two resources Exclusive in the order
\* it was given, outside AcquireResources, the second resource only after
\* both have locked their first
ManualOrders == {<<r1, r2>>, <<r2, r1>>}

\* the lockRow calls of the helper, in its order
UnorderedRequests(userID, accountID, firstResourceID, secondResourceID) ==
    LET k1 == ResolvedKeys[<<LevelResource, userID, accountID, firstResourceID>>].keys
        k2 == ResolvedKeys[<<LevelResource, userID, accountID, secondResourceID>>].keys
    IN  <<[target |-> k1[1], exclusive |-> FALSE],
          [target |-> k1[2], exclusive |-> FALSE],
          [target |-> k1[3], exclusive |-> TRUE],
          [target |-> k2[3], exclusive |-> TRUE]>>

acquireTwoResourcesUnorderedWithBarrier(p, userID, accountID, firstResourceID, secondResourceID) ==
    /\ db = "open"
    /\ UNCHANGED callerIDs
    /\ Begin(p,
             [userID |-> userID, level |-> LevelResource,
              accountID |-> accountID, resourceID |-> Empty,
              op |-> "acquireTwoResourcesUnorderedWithBarrier",
              resourceIDs |-> <<firstResourceID, secondResourceID>>],
             UnorderedRequests(userID, accountID, firstResourceID,
                               secondResourceID),
             "nil", TRUE)

CallUnordered(p) ==
    \E o \in ManualOrders :
        acquireTwoResourcesUnorderedWithBarrier(p, u1, a1, o[1], o[2])

\* close(startSecond): both goroutines have locked their first resource
startSecond == \A q \in Callers : idx[q] >= 3

\* the helper's next lockRow; the one for the second resource waits for
\* startSecond
UnorderedLockRow(p) ==
    /\ idx[p] = 3 => startSecond
    /\ LockRow(p)

\* the helper returns nil and its deferred tx.Rollback() runs
deferredRollback(p) ==
    /\ pc[p] = "held"
    /\ Release(p)

NextUnordered ==
    \E p \in Callers :
        \/ CallUnordered(p)
        \/ UnorderedLockRow(p)
        \/ Wake(p)
        \/ LockRowDeadlock(p)
        \/ LockRowTimeout(p)
        \/ LockRowCanceled(p)
        \/ CtxCancel(p)
        \/ TxAwaitDone(p)
        \/ deferredRollback(p)

SpecUnordered == Init /\ [][NextUnordered]_vars

\* Repository: the lock methods application code calls
GetUserLock(p, userID, beginOK) ==
    Acquire(p, LevelUser, userID, Empty, Empty, beginOK)

\* a GetAccountLock that asks the Manager for the user level
GetAccountLockAtUserLevel(p, userID, accountID, beginOK) ==
    Acquire(p, LevelUser, userID, Empty, Empty, beginOK)

GetAccountLock(p, userID, accountID, beginOK) ==
    Acquire(p, LevelAccount, userID, accountID, Empty, beginOK)

GetResourceLock(p, userID, accountID, resourceID, beginOK) ==
    Acquire(p, LevelResource, userID, accountID, resourceID, beginOK)

GetResourcesLock(p, userID, accountID, resourceIDs, beginOK) ==
    AcquireResources(p, userID, accountID, resourceIDs, beginOK)

\* arguments of the Repository methods: one user, one account, two resources,
\* and calls that lack an identifier
RepositoryUserInputs == {u1, Empty}

RepositoryAccountInputs == {<<u1, a1>>, <<u1, Empty>>}

RepositoryResourceInputs == {<<u1, a1, r1>>, <<u1, a1, r2>>, <<u1, a1, Empty>>}

RepositoryResourcesInputs ==
    {<<u1, a1, <<r1, r2>>>>, <<u1, a1, <<r2, r1>>>>, <<u1, a1, << >>>>}

CallRepository(p) ==
    \E beginOK \in BOOLEAN :
        \/ \E u \in RepositoryUserInputs : GetUserLock(p, u, beginOK)
        \/ \E in \in RepositoryAccountInputs :
              GetAccountLock(p, in[1], in[2], beginOK)
        \/ \E in \in RepositoryResourceInputs :
              GetResourceLock(p, in[1], in[2], in[3], beginOK)
        \/ \E in \in RepositoryResourcesInputs :
              GetResourcesLock(p, in[1], in[2], in[3], beginOK)

NextRepository ==
    \E p \in Callers :
        \/ CallRepository(p)
        \/ LockRow(p)
        \/ Wake(p)
        \/ Release(p)
        \/ Forget(p)

SpecRepository == Init /\ [][NextRepository]_vars

(***************************************************************************)
(* Calls against a table in which one bucket row is missing                *)
(***************************************************************************)
NextMissingRow ==
    \E p \in Callers :
        \/ CallAcquire(p)
        \/ CallAcquireResources(p)
        \/ LockRow(p)
        \/ Wake(p)
        \/ Release(p)
        \/ Forget(p)

SpecMissingRow == InitMissingRow /\ [][NextMissingRow]_vars

(***************************************************************************)
(* Calls that pass identifiers below the requested level                   *)
(***************************************************************************)
CallAcquireLower(p) ==
    \E in \in LowerLevelInputs, beginOK \in BOOLEAN :
        Acquire(p, in[1], in[2], in[3], in[4], beginOK)

NextLower ==
    \E p \in Callers :
        \/ CallAcquireLower(p)
        \/ LockRow(p)
        \/ Wake(p)
        \/ Release(p)
        \/ Forget(p)

SpecLower == Init /\ [][NextLower]_vars

(***************************************************************************)
(* The string-key Manager (manager.go): one row of hier_locks per key      *)
(***************************************************************************)
\* "user:" + userID
userKey(userID) == PrefixUser \o userID

\* "account:" + userID + ":" + accountID
accountKey(userID, accountID) == PrefixAccount \o userID \o Colon \o accountID

\* "resource:" + userID + ":" + accountID + ":" + resourceID
resourceKey(userID, accountID, resourceID) ==
    PrefixResource \o userID \o Colon \o accountID \o Colon \o resourceID

\* lockKeys of manager.go: the argument checks and the keys of the path
lockKeysOfStrings(level, userID, accountID, resourceID) ==
    IF level = LevelUser
    THEN IF userID = Empty
         THEN [keys |-> << >>, err |-> "Validation"]
         ELSE [keys |-> <<userKey(userID)>>, err |-> "nil"]
    ELSE IF level = LevelAccount
    THEN IF userID = Empty \/ accountID = Empty
         THEN [keys |-> << >>, err |-> "Validation"]
         ELSE [keys |-> <<userKey(userID), accountKey(userID, accountID)>>,
               err |-> "nil"]
    ELSE IF level = LevelResource
    THEN IF userID = Empty \/ accountID = Empty \/ resourceID = Empty
         THEN [keys |-> << >>, err |-> "Validation"]
         ELSE [keys |-> <<userKey(userID), accountKey(userID, accountID),
                          resourceKey(userID, accountID, resourceID)>>,
               err |-> "nil"]
    ELSE [keys |-> << >>, err |-> "Validation"]

\* (level, userID, accountID, resourceID) of the calls on the string-key
\* Manager: users "a" and "a:b", accounts "c" and "b:c" (identifiers with and
\* without the separator), one resource
KeyInputs ==
    LET idA == <<97>>
        idAB == <<97, 58, 98>>
        idC == <<99>>
        idBC == <<98, 58, 99>>
    IN  {<<LevelUser, u, Empty, Empty>> : u \in {idA, idAB}}
        \cup {<<LevelAccount, idA, a, Empty>> : a \in {idC, idBC}}
        \cup {<<LevelAccount, idAB, idC, Empty>>}
        \cup {<<LevelResource, idA, a, r1>> : a \in {idC, idBC}}
        \cup {<<LevelResource, idAB, idC, r1>>}
        \cup {<<LevelAccount, idA, Empty, Empty>>}

ResolvedStringKeys ==
    [in \in KeyInputs |-> lockKeysOfStrings(in[1], in[2], in[3], in[4])]

\* every row of hier_locks the calls above can name
AllKeys == UNION {{ResolvedStringKeys[in].keys[i] : i \in 1..Len(ResolvedStringKeys[in].keys)} : in \in KeyInputs}

\* Manager.Acquire of manager.go: the same steps over the keys of lockKeys
AcquireByKeys(p, level, userID, accountID, resourceID, beginOK) ==
    /\ UNCHANGED callerIDs
    /\ LET k == ResolvedStringKeys[<<level, userID, accountID, resourceID>>]
       IN  Begin(p,
                 [userID |-> userID, level |-> level, accountID |-> accountID,
                  resourceID |-> resourceID, op |-> "Acquire",
                  resourceIDs |-> << >>],
                 AcquireRequests(k.keys), k.err, beginOK)

CallAcquireByKeys(p) ==
    \E in \in KeyInputs, beginOK \in BOOLEAN :
        AcquireByKeys(p, in[1], in[2], in[3], in[4], beginOK)

InitKeys == InitWithRows(AllKeys)

NextKeys ==
    \E p \in Callers :
        \/ CallAcquireByKeys(p)
        \/ LockRow(p)
        \/ Wake(p)
        \/ Release(p)
        \/ Forget(p)

SpecKeys == InitKeys /\ [][NextKeys]_vars

(***************************************************************************)
(* LockManager.Lock: the in-process tree of LockNodes                      *)
(***************************************************************************)
\* lm.Lock(path, lockType) is called; lockType is not read by Lock
LockCall(g, path) ==
    /\ lockPc[g] = "idle"
    /\ lockPc' = [lockPc EXCEPT ![g] = "loop"]
    /\ lockPath' = [lockPath EXCEPT ![g] = path]
    /\ lockI' = [lockI EXCEPT ![g] = 0]
    /\ UNCHANGED <<nodeCount, lockChild, children, shared, exclusiveFlag, rlocked, lockTmp>>
    /\ UNCHANGED managerVars

\* n = child: go on with the node in child, to n.shared++ or to the last node
LockAdvance(g, child) ==
    /\ lockChild' = [lockChild EXCEPT ![g] = child]
    /\ lockI' = [lockI EXCEPT ![g] = @ + 1]
    /\ lockPc' = [lockPc EXCEPT
                     ![g] = IF lockI[g] + 1 < Len(lockPath[g]) THEN "incr" ELSE "leaf"]

\* child, ok := n.children[name] under n.mu.RLock(): go on with the child
\* found, or go to create it
LockLookup(g) ==
    /\ lockPc[g] = "loop"
    /\ lockI[g] < Len(lockPath[g])
    /\ LET name == Prefix(lockPath[g], lockI[g] + 1)
       IN  IF name \in children
           THEN LockAdvance(g, nodeCount[name])
           ELSE /\ lockPc' = [lockPc EXCEPT ![g] = "create"]
                /\ lockChild' = [lockChild EXCEPT ![g] = 0]
                /\ UNCHANGED lockI
    /\ UNCHANGED <<nodeCount, children, shared, exclusiveFlag, rlocked, lockPath, lockTmp>>
    /\ UNCHANGED managerVars

\* a creation that does not look the name up again under the write lock
LockCreateUnchecked(g) ==
    /\ lockPc[g] = "create"
    /\ lockI[g] > 0 => rlocked[Prefix(lockPath[g], lockI[g])] = {}
    /\ LET name == Prefix(lockPath[g], lockI[g] + 1)
       IN  /\ nodeCount' = [nodeCount EXCEPT ![name] = @ + 1]
           /\ children' = children \cup {name}
           /\ LockAdvance(g, nodeCount[name] + 1)
    /\ UNCHANGED <<shared, exclusiveFlag, rlocked, lockPath, lockTmp>>
    /\ UNCHANGED managerVars

\* under n.mu.Lock(): look the name up again, make the LockNode and put it in
\* the map if it is still missing, go on with the node of the map
LockCreate(g) ==
    /\ lockPc[g] = "create"
    /\ lockI[g] > 0 => rlocked[Prefix(lockPath[g], lockI[g])] = {}
    /\ LET name == Prefix(lockPath[g], lockI[g] + 1)
       IN  IF name \in children
           THEN /\ LockAdvance(g, nodeCount[name])
                /\ UNCHANGED <<nodeCount, children>>
           ELSE /\ nodeCount' = [nodeCount EXCEPT ![name] = @ + 1]
                /\ children' = children \cup {name}
                /\ LockAdvance(g, nodeCount[name] + 1)
    /\ UNCHANGED <<shared, exclusiveFlag, rlocked, lockPath, lockTmp>>
    /\ UNCHANGED managerVars

\* n.mu.RLock() and the read of n.shared++; other readers may hold the RLock
LockSharedRead(g) ==
    /\ lockPc[g] = "incr"
    /\ LET n == Prefix(lockPath[g], lockI[g])
       IN  /\ rlocked' = [rlocked EXCEPT ![n] = @ \cup {g}]
           /\ lockTmp' = [lockTmp EXCEPT ![g] = shared[n]]
    /\ lockPc' = [lockPc EXCEPT ![g] = "incrWrite"]
    /\ UNCHANGED <<nodeCount, lockChild, children, shared, exclusiveFlag, lockPath, lockI>>
    /\ UNCHANGED managerVars

\* the write of n.shared++ and n.mu.RUnlock()
LockSharedWrite(g) ==
    /\ lockPc[g] = "incrWrite"
    /\ LET n == Prefix(lockPath[g], lockI[g])
       IN  /\ shared' = [shared EXCEPT ![n] = lockTmp[g] + 1]
           /\ rlocked' = [rlocked EXCEPT ![n] = @ \ {g}]
    /\ lockPc' = [lockPc EXCEPT ![g] = "loop"]
    /\ UNCHANGED <<nodeCount, lockChild, children, exclusiveFlag, lockPath, lockI, lockTmp>>
    /\ UNCHANGED managerVars

\* n.mu.Lock(); n.exclusive = true; n.mu.Unlock(); Lock returns the closure
LockExclusive(g) ==
    /\ lockPc[g] = "leaf"
    /\ LET n == lockPath[g]
       IN  /\ rlocked[n] = {}
           /\ exclusiveFlag' = [exclusiveFlag EXCEPT ![n] = TRUE]
    /\ lockPc' = [lockPc EXCEPT ![g] = "locked"]
    /\ UNCHANGED <<nodeCount, lockChild, children, shared, rlocked, lockPath, lockI, lockTmp>>
    /\ UNCHANGED managerVars

\* one pass of the loop of the returned closure, from the last node upwards:
\* under n.mu.Lock(), exclusive = false on the last node, shared-- on the others
UnlockStep(g) ==
    /\ lockPc[g] \in {"locked", "unlocking"}
    /\ LET n == Prefix(lockPath[g], lockI[g])
       IN  /\ rlocked[n] = {}
           /\ IF lockI[g] = Len(lockPath[g])
              THEN /\ exclusiveFlag' = [exclusiveFlag EXCEPT ![n] = FALSE]
                   /\ UNCHANGED shared
              ELSE /\ shared' = [shared EXCEPT ![n] = @ - 1]
                   /\ UNCHANGED exclusiveFlag
    /\ lockI' = [lockI EXCEPT ![g] = @ - 1]
    /\ lockPc' = [lockPc EXCEPT
                     ![g] = IF lockI[g] = 1 THEN "unlocked" ELSE "unlocking"]
    /\ UNCHANGED <<nodeCount, lockChild, children, rlocked, lockPath, lockTmp>>
    /\ UNCHANGED managerVars

\* Lock calls of concurrent goroutines, each followed by its unlock
NextTree ==
    \E g \in Callers :
        \/ \E path \in LockPaths : LockCall(g, path)
        \/ LockLookup(g)
        \/ LockCreate(g)
        \/ LockSharedRead(g)
        \/ LockSharedWrite(g)
        \/ LockExclusive(g)
        \/ UnlockStep(g)

SpecTree == Init /\ [][NextTree]_vars

(***************************************************************************)
(* Vocabulary of the properties                                            *)
(***************************************************************************)
\* p's handle is Active: returned, not released, its scope (the transaction)
\* still open
Active(p) == pc[p] = "held" /\ handle[p] = "tx" /\ tx[p] = "open"

\* p's call has opened its scope and not returned yet
InProgress(p) == pc[p] \in {"acquiring", "waiting"}

\* p's call is suspended in the substrate: its request is queued and another
\* transaction stands in its way
Suspended(p) == pc[p] = "waiting" /\ ~Grantable(p, Pending(p))

IsAcquire(p) == call[p].op = "Acquire"

IsAcquireResources(p) == call[p].op = "AcquireResources"

\* the path the hierarchy assigns to an entity of level in[1]: the targets of
\* its ancestors, Shared, then its own target, Exclusive
PathOf(in) ==
    LET ts == <<userTarget(in[2]), accountTarget(in[2], in[3]),
                resourceTarget(in[2], in[3], in[4])>>
    IN  [i \in 1..(in[1] + 1) |-> [target |-> ts[i], exclusive |-> (i = in[1] + 1)]]

EntityPaths == [in \in AcquireInputs \ InvalidAcquireInputs |-> PathOf(in)]

\* the path of the entity named by p's Acquire call
EntityPath(p) ==
    EntityPaths[<<call[p].level, call[p].userID, call[p].accountID, call[p].resourceID>>]

\* request i of rs meets a request of other at the same target, one of the two
\* Exclusive
ConflictAt(rs, i, other) ==
    \E j \in 1..Len(other) :
        /\ other[j].target = rs[i].target
        /\ (rs[i].exclusive \/ other[j].exclusive)

PathsConflict(rs, other) == \E i \in 1..Len(rs) : ConflictAt(rs, i, other)

FirstConflict(rs, other) ==
    CHOOSE i \in 1..Len(rs) :
        ConflictAt(rs, i, other) /\ \A j \in 1..(i - 1) : ~ConflictAt(rs, j, other)

(***************************************************************************)
(* Properties                                                              *)
(***************************************************************************)
\* C1: conflict law of single-path acquisitions.  While the handle of an
\* Acquire call A is Active, another Acquire call B whose path shares with A's
\* a target that one of them requests Exclusive does not get past its first
\* such target (it is suspended there, or has not reached it yet), and a call
\* B whose path shares no such target is never suspended.
ConflictLaw ==
    \A a, b \in Callers :
        (/\ a # b
         /\ IsAcquire(a) /\ IsAcquire(b)
         /\ Active(a)
         /\ (InProgress(b) \/ Active(b)))
        => IF PathsConflict(EntityPath(b), EntityPath(a))
           THEN idx[b] < FirstConflict(EntityPath(b), EntityPath(a))
           ELSE ~Suspended(b)

\* A's handle is Active and a conflicting Acquire call B is suspended
ConflictLawWitness ==
    \E a, b \in Callers :
        /\ a # b
        /\ IsAcquire(a) /\ IsAcquire(b)
        /\ Active(a)
        /\ Suspended(b)
        /\ PathsConflict(EntityPath(b), EntityPath(a))

\* the entity named by call d lies below the entity named by call e
Below(d, e) ==
    /\ e.level \in {LevelUser, LevelAccount}
    /\ d.level \in {LevelAccount, LevelResource}
    /\ d.level > e.level
    /\ d.userID = e.userID
    /\ (e.level = LevelAccount => d.accountID = e.accountID)

\* C2: ancestor/descendant exclusion.  A handle of Acquire(E) and a handle of
\* Acquire(D), D below E, are never Active together: while E's handle is
\* Active, D's call is not granted E's target (position level(E) + 1 of its
\* path); while D's handle is Active, E's call is not granted its own target.
AncestorDescendantExclusion ==
    \A e, d \in Callers :
        (e # d /\ IsAcquire(e) /\ IsAcquire(d) /\ Below(call[d], call[e]))
        => /\ ~(Active(e) /\ Active(d))
           /\ (Active(e) /\ InProgress(d) => idx[d] <= call[e].level)
           /\ (Active(d) /\ InProgress(e) => idx[e] <= call[e].level)

\* a descendant's handle is Active and the ancestor's Acquire is suspended on
\* its own target
AncestorDescendantWitness ==
    \E e, d \in Callers :
        /\ e # d /\ IsAcquire(e) /\ IsAcquire(d) /\ Below(call[d], call[e])
        /\ Active(d)
        /\ Suspended(e)
        /\ idx[e] = call[e].level

\* p's call holds or is taking its locks
Live(p) == InProgress(p) \/ Active(p)

\* C3: Shared/Shared compatibility.  An Acquire call whose path meets the path
\* of every other live acquisition only at targets both request Shared is
\* never suspended, whatever the number and the order of the acquisitions.
SharedCompatibility ==
    \A p \in AllCallers :
        (/\ IsAcquire(p) /\ Live(p)
         /\ \A q \in AllCallers \ {p} :
               (IsAcquire(q) /\ Live(q))
               => ~PathsConflict(EntityPath(p), EntityPath(q)))
        => ~Suspended(p)

\* three handles on different resources of user u1 are Active at once, all
\* holding the user target Shared
SharedCompatibilityWitness ==
    /\ \A p \in AllCallers :
          Active(p) /\ call[p].level = LevelResource /\ call[p].userID = u1
    /\ \A p, q \in AllCallers : p # q => call[p] # call[q]

\* C4: failure atomicity.  A call that returned an error returned a nil handle
\* and its scope is discarded, so none of the targets it was granted is still
\* held; a handle is returned only when every request of the call's sequence
\* was granted, and a freshly returned handle holds them all.
FailureAtomicity ==
    \A p \in Callers :
        /\ pc[p] = "failed"
           => /\ err[p] # "nil"
              /\ handle[p] = "nil"
              /\ locks[p] = {}
              /\ tx[p] # "open"
        /\ handle[p] = "tx"
           => /\ err[p] = "nil"
              /\ idx[p] = Len(reqs[p])
              /\ (Active(p) => \A i \in 1..Len(reqs[p]) : reqs[p][i] \in locks[p])

\* an AcquireResources call failed after it had been granted the user, the
\* account and a resource
FailureAtomicityWitness ==
    \E p \in Callers :
        /\ pc[p] = "failed"
        /\ IsAcquireResources(p)
        /\ idx[p] = 3
        /\ Len(reqs[p]) = 4

\* C5: cancelling the context of a call that has returned a handle is a no-op:
\* as long as Release has not been called on the handle, every target of the
\* handle is held in its mode.
CancelAfterReturnIsNoOp ==
    \A p \in Callers :
        pc[p] = "held" => \A i \in 1..Len(reqs[p]) : reqs[p][i] \in locks[p]

\* C6: deadlock freedom of multi-leaf acquisition: no AcquireResources call is
\* ever part of a cyclic wait, and none returns a deadlock error.
MultiLeafDeadlockFreedom ==
    \A p \in Callers :
        IsAcquireResources(p) => ~InCycle(p) /\ err[p] # "Deadlock"

\* T1 called AcquireResources(u1, a1, [r1, r2]), T2 AcquireResources(u1, a1, [r2, r1])
OppositeOrders ==
    /\ IsAcquireResources("T1") /\ call["T1"].resourceIDs = <<r1, r2>>
    /\ IsAcquireResources("T2") /\ call["T2"].resourceIDs = <<r2, r1>>

\* C7: with T1 holding AcquireResources(u1, a1, [r1, r2]) and T2 calling
\* AcquireResources(u1, a1, [r2, r1]): while T1's handle is Active T2 has not
\* got past the account target and has no error; neither call is part of a
\* cyclic wait or fails; once T1 has released, the suspended T2 returns a
\* handle.
OrderedMultiLeaf ==
    /\ [](OppositeOrders /\ Active("T1") /\ pc["T2"] # "released"
            => InProgress("T2") /\ idx["T2"] <= 2 /\ err["T2"] = "nil")
    /\ [](OppositeOrders /\ db = "open"
            => /\ ~InCycle("T1") /\ ~InCycle("T2")
               /\ pc["T1"] # "failed" /\ pc["T2"] # "failed")
    /\ ((OppositeOrders /\ pc["T1"] = "released" /\ pc["T2"] = "waiting")
            ~> (OppositeOrders /\ Active("T2") /\ err["T2"] = "nil"))

\* T1's handle on [r1, r2] is Active and T2's call with [r2, r1] is suspended
\* on r1, holding the user and the account Shared
OrderedMultiLeafWitness ==
    /\ OppositeOrders
    /\ Active("T1")
    /\ Suspended("T2")
    /\ idx["T2"] = 2

\* C8: release visibility: a call still suspended when the one handle that
\* stood in its way has been released is eventually granted its targets and
\* returns a handle, without error.
ReleaseVisibility ==
    \A p, q \in Callers :
        (p # q /\ pc[p] = "waiting" /\ pc[q] = "released")
        ~> (Active(p) /\ err[p] = "nil")

\* q released a handle whose scope was open while p is still queued
ReleaseVisibilityWitness ==
    \E p, q \in Callers :
        /\ p # q
        /\ pc[p] = "waiting"
        /\ pc[q] = "released" /\ rel[q] = "open"

\* C9: Release discards the handle's scope: once Release has returned, the
\* handle's transaction is finished and holds none of the handle's targets.
ReleaseDiscardsScope ==
    \A p \in Callers :
        pc[p] = "released" => locks[p] = {} /\ tx[p] = "done"

\* a handle that held its whole path was released
ReleaseDiscardsScopeWitness ==
    \E p \in Callers :
        /\ pc[p] = "released"
        /\ rel[p] = "open"
        /\ Len(reqs[p]) = 3

\* C10: Release idempotence: Release on a nil handle, on a handle without a
\* scope, or on a handle already released reports no error.
ReleaseIdempotent ==
    \A p \in Callers :
        rel[p] \in {"nil", "zero", "again"} => relErr[p] = "nil"

\* C11: cancellation during a wait.  A call that is suspended when its context
\* is done leaves the wait only by returning: with an error, a nil handle, its
\* transaction finished and none of the targets it had been granted held.
CancellationDuringWait ==
    [][\A p \in Callers :
          (pc[p] = "waiting" /\ ctxDone[p] /\ pc'[p] # "waiting")
          => /\ pc'[p] = "failed"
             /\ err'[p] # "nil"
             /\ handle'[p] = "nil"
             /\ locks'[p] = {}
             /\ tx'[p] = "done"]_vars

\* a call returned the cancellation error after it had been granted targets,
\* its next target still held by another caller's Active handle
CancellationDuringWaitWitness ==
    \E p, q \in Callers :
        /\ p # q
        /\ pc[p] = "failed" /\ err[p] = "Canceled" /\ ctxDone[p]
        /\ idx[p] >= 1
        /\ Active(q)
        /\ \E l \in locks[q] :
              /\ l.target = reqs[p][idx[p] + 1].target
              /\ ModesConflict(l.exclusive, reqs[p][idx[p] + 1].exclusive)

\* a row lock held by another caller conflicts with the request p is making
HeldAgainst(p) ==
    \E q \in AllCallers \ {p} : \E l \in locks[q] :
        /\ l.target = Pending(p).target
        /\ ModesConflict(l.exclusive, Pending(p).exclusive)

\* C12: blocking semantics.  A request that conflicts with a held target
\* suspends the call (it fails there only on a substrate fault), a suspended
\* call goes on only by being granted the target it waits for, and no call
\* ever returns a lock-conflict error.
BlockingSemantics ==
    [][\A p \in Callers :
          /\ (/\ pc[p] = "acquiring" /\ ~ctxDone[p]
              /\ Pending(p).target \in rows
              /\ HeldAgainst(p)
              /\ pc'[p] # "acquiring")
             => (pc'[p] = "waiting" \/ (pc'[p] = "failed" /\ err'[p] = "Fault"))
          /\ (pc[p] = "waiting" /\ pc'[p] \in {"acquiring", "held"})
             => (/\ ~HeldAgainst(p)
                 /\ idx'[p] = idx[p] + 1
                 /\ Pending(p) \in locks'[p])
          /\ err'[p] # "Conflict"]_vars

\* an Acquire call is suspended, no error set, on a target that another
\* caller's Active handle holds in a conflicting mode
BlockingSemanticsWitness ==
    \E p \in Callers :
        /\ IsAcquire(p)
        /\ pc[p] = "waiting" /\ InQueue(p)
        /\ err[p] = "nil" /\ handle[p] = "nil"
        /\ HeldAgainst(p)
        /\ \E q \in Callers \ {p} :
              Active(q) /\ \E l \in locks[q] : l.target = Pending(p).target

\* C13: NOWAIT semantics.  While a first Acquire handle is held, a second
\* Acquire that conflicts with it returns (a lock-conflict error and no
\* handle) without waiting for the first handle's release: it is never
\* suspended on a target that the first handle holds in a conflicting mode.
NowaitSemantics ==
    \A a, b \in Callers :
        (/\ a # b
         /\ IsAcquire(a) /\ IsAcquire(b)
         /\ Active(a)
         /\ InProgress(b)
         /\ \E l \in locks[a] :
               /\ l.target = Pending(b).target
               /\ ModesConflict(l.exclusive, Pending(b).exclusive))
        => (pc[b] # "waiting" /\ handle[b] = "nil")

\* the rearrangements of the positions 1..n
Rearrangements(n) ==
    {f \in [1..n -> 1..n] : \A i, j \in 1..n : f[i] = f[j] => i = j}

\* t lists the elements of s, each as often as s does
IsPermutationOf(s, t) ==
    /\ Len(s) = Len(t)
    /\ \E f \in Rearrangements(Len(s)) : \A i \in 1..Len(s) : t[i] = s[f[i]]

\* no element of ids is followed by a smaller one in Go's string order
Ascending(ids) ==
    \A i \in 1..(Len(ids) - 1) : ~StrLess(ids[i + 1], ids[i])

\* the row of resource id under the account the multi-resource calls name
LeafTarget(p, id) ==
    ResolvedKeys[<<LevelResource, call[p].userID, call[p].accountID, id>>].keys[3]

\* the targets of the resource requests of an AcquireResources call, in order
LeafTargets(p) == [i \in 1..(Len(reqs[p]) - 2) |-> reqs[p][i + 2].target]

\* C14: canonicalization.  The resource requests of an AcquireResources call
\* are those of its resource IDs taken in ascending order of the raw IDs, so
\* two calls whose ID lists are permutations of each other request the same
\* resource targets in the same order.
Canonicalization ==
    /\ \A p \in Callers :
          (IsAcquireResources(p) /\ reqs[p] # << >>)
          => \E f \in Rearrangements(Len(call[p].resourceIDs)) :
                LET ids == [i \in 1..Len(call[p].resourceIDs) |->
                               call[p].resourceIDs[f[i]]]
                IN  /\ Ascending(ids)
                    /\ LeafTargets(p) =
                          [i \in 1..Len(ids) |-> LeafTarget(p, ids[i])]
    /\ \A p, q \in Callers :
          (/\ IsAcquireResources(p) /\ IsAcquireResources(q)
           /\ reqs[p] # << >> /\ reqs[q] # << >>
           /\ call[p].userID = call[q].userID
           /\ call[p].accountID = call[q].accountID
           /\ IsPermutationOf(call[p].resourceIDs, call[q].resourceIDs))
          => LeafTargets(p) = LeafTargets(q)

\* two calls in progress were given the same two resources in opposite
\* orders, one of them in descending order
CanonicalizationWitness ==
    \E p, q \in Callers :
        /\ p # q
        /\ IsAcquireResources(p) /\ IsAcquireResources(q)
        /\ InProgress(p) /\ InProgress(q)
        /\ Len(call[p].resourceIDs) = 2
        /\ StrLess(call[p].resourceIDs[2], call[p].resourceIDs[1])
        /\ call[q].resourceIDs =
              <<call[p].resourceIDs[2], call[p].resourceIDs[1]>>
        /\ LeafTargets(p)[1] # LeafTargets(p)[2]

\* C15: deadlock freedom of single-path acquisition.  Whatever Acquire calls
\* run concurrently (all levels, colliding resource buckets included), no
\* Acquire call is ever part of a cyclic wait.
SinglePathDeadlockFreedom ==
    \A p \in AllCallers : IsAcquire(p) => ~InCycle(p)

\* three Acquire calls wait in a chain: one is suspended behind a second,
\* which is suspended behind a third, and two resources with one bucket are
\* in play
SinglePathDeadlockFreedomWitness ==
    \E p, q, r \in AllCallers :
        /\ p # q /\ q # r /\ p # r
        /\ IsAcquire(p) /\ IsAcquire(q) /\ IsAcquire(r)
        /\ WaitsFor(p, q) /\ WaitsFor(q, r)
        /\ call[p].resourceID = r1 /\ call[r].resourceID = rc

\* C16: mode and level assignment of a single path.  The requests of an
\* Acquire call at level L are one target per level User..L, in strictly
\* increasing level order and each the target of the named entity's ancestor
\* at that level, every request but the last Shared and the last Exclusive;
\* the call holds exactly the requests before its position, in those modes.
SinglePathShape ==
    \A p \in Callers :
        (IsAcquire(p) /\ reqs[p] # << >>)
        => /\ Len(reqs[p]) = call[p].level + 1
           /\ \A i \in 1..Len(reqs[p]) :
                 /\ reqs[p][i].target.level = i - 1
                 /\ reqs[p][i].target = EntityPath(p)[i].target
                 /\ reqs[p][i].exclusive = (i = call[p].level + 1)
           /\ (InProgress(p) \/ Active(p))
              => locks[p] = {reqs[p][i] : i \in 1..idx[p]}

\* the handle of a Resource-level Acquire is Active: it holds a Shared user
\* row, a Shared account row and an Exclusive resource row
SinglePathShapeWitness ==
    \E p \in Callers :
        /\ IsAcquire(p) /\ call[p].level = LevelResource
        /\ Active(p)
        /\ Cardinality(locks[p]) = 3
        /\ \E l \in locks[p] : l.target.level = LevelResource /\ l.exclusive
        /\ \E l \in locks[p] : l.target.level = LevelAccount /\ ~l.exclusive
        /\ \E l \in locks[p] : l.target.level = LevelUser /\ ~l.exclusive

\* the user and account targets of the account p's multi-resource call names
AncestorTargets(p) ==
    ResolvedKeys[<<LevelAccount, call[p].userID, call[p].accountID, Empty>>].keys

\* C17: multi-leaf path shape.  The requests of an AcquireResources call are
\* the user target Shared, the account target Shared, then one resource
\* target per ID, each Exclusive; the call holds exactly the requests before
\* its position, so a resource row is held only with both ancestor rows, and
\* it never holds an ancestor row Exclusive or a resource row Shared.
MultiLeafShape ==
    \A p \in Callers :
        (IsAcquireResources(p) /\ reqs[p] # << >>)
        => /\ Len(reqs[p]) = 2 + Len(call[p].resourceIDs)
           /\ reqs[p][1] = [target |-> AncestorTargets(p)[1], exclusive |-> FALSE]
           /\ reqs[p][1].target.level = LevelUser
           /\ reqs[p][2] = [target |-> AncestorTargets(p)[2], exclusive |-> FALSE]
           /\ reqs[p][2].target.level = LevelAccount
           /\ \A i \in 3..Len(reqs[p]) :
                 /\ reqs[p][i].target.level = LevelResource
                 /\ reqs[p][i].exclusive
           /\ (InProgress(p) \/ Active(p))
              => locks[p] = {reqs[p][i] : i \in 1..idx[p]}
           /\ \A l \in locks[p] :
                 /\ l.exclusive = (l.target.level = LevelResource)
                 /\ l.target.level = LevelResource
                    => {reqs[p][1], reqs[p][2]} \subseteq locks[p]

\* the handle of an AcquireResources call on two resources is Active: it
\* holds the two ancestor rows Shared and two resource rows Exclusive
MultiLeafShapeWitness ==
    \E p \in Callers :
        /\ IsAcquireResources(p)
        /\ Active(p)
        /\ Len(call[p].resourceIDs) = 2
        /\ Cardinality(locks[p]) = 4
        /\ Cardinality({l \in locks[p] : l.exclusive}) = 2

\* the arguments c of an Acquire call lack an identifier its level requires
MissingIdentifier(c) ==
    \/ c.userID = Empty
    \/ c.level \in {LevelAccount, LevelResource} /\ c.accountID = Empty
    \/ c.level = LevelResource /\ c.resourceID = Empty

\* C18: single-path validation.  An Acquire call whose userID is empty, whose
\* accountID is empty at Account or Resource level, or whose resourceID is
\* empty at Resource level has failed as soon as it has started: with the
\* validation error (a Manager with a database), no handle, no transaction
\* opened, no lock requested, queued or held.
SinglePathValidation ==
    \A p \in Callers :
        (IsAcquire(p) /\ MissingIdentifier(call[p]))
        => /\ pc[p] = "failed"
           /\ err[p] # "nil"
           /\ db = "open" => err[p] = "Validation"
           /\ handle[p] = "nil"
           /\ tx[p] = "none"
           /\ reqs[p] = << >> /\ idx[p] = 0
           /\ locks[p] = {}
           /\ ~InQueue(p)

\* both callers have made Acquire calls that lack an identifier, one at
\* Resource level without accountID, the other without userID, and both
\* returned the validation error
SinglePathValidationWitness ==
    \E p, q \in Callers :
        /\ p # q
        /\ IsAcquire(p) /\ IsAcquire(q)
        /\ call[p].level = LevelResource /\ call[p].accountID = Empty
        /\ call[p].userID # Empty /\ call[p].resourceID # Empty
        /\ call[q].userID = Empty
        /\ err[p] = "Validation" /\ err[q] = "Validation"

\* the arguments c of an AcquireResources call lack an identifier
MissingResourceIdentifier(c) ==
    \/ c.userID = Empty
    \/ c.accountID = Empty
    \/ Len(c.resourceIDs) = 0
    \/ \E i \in 1..Len(c.resourceIDs) : c.resourceIDs[i] = Empty

\* C19: multi-leaf validation.  An AcquireResources call whose userID or
\* accountID is empty, whose list of resource IDs is empty or has an empty
\* element has failed as soon as it has started: with the validation error
\* (a Manager with a database), no handle, no transaction opened, no lock
\* requested, queued or held.
MultiLeafValidation ==
    \A p \in Callers :
        (IsAcquireResources(p) /\ MissingResourceIdentifier(call[p]))
        => /\ pc[p] = "failed"
           /\ err[p] # "nil"
           /\ db = "open" => err[p] = "Validation"
           /\ handle[p] = "nil"
           /\ tx[p] = "none"
           /\ reqs[p] = << >> /\ idx[p] = 0
           /\ locks[p] = {}
           /\ ~InQueue(p)

\* both callers have made AcquireResources calls that returned the
\* validation error, one for an empty element after a valid one, the other
\* for an empty list
MultiLeafValidationWitness ==
    \E p, q \in Callers :
        /\ p # q
        /\ IsAcquireResources(p) /\ IsAcquireResources(q)
        /\ Len(call[p].resourceIDs) = 2
        /\ call[p].resourceIDs[1] # Empty /\ call[p].resourceIDs[2] = Empty
        /\ call[q].userID # Empty /\ call[q].accountID # Empty
        /\ call[q].resourceIDs = << >>
        /\ err[p] = "Validation" /\ err[q] = "Validation"

\* p and q wait for each other: each holds the resource the other requests
CyclicWait(p, q) == p # q /\ WaitsFor(p, q) /\ WaitsFor(q, p)

\* C20: unordered manual locking.  When two callers that locked r1 and r2 in
\* opposite orders wait for each other, the substrate reports a deadlock
\* error to exactly one of them and the other's second request succeeds: a
\* caller leaves the cyclic wait only by the deadlock error, the other still
\* waiting, and that other caller then leaves its wait only by being granted
\* the resource.
UnorderedDeadlockReported ==
    [][\A p, q \in Callers :
          /\ (CyclicWait(p, q) /\ pc'[p] # "waiting")
             => (/\ pc'[p] = "failed" /\ err'[p] = "Deadlock"
                 /\ pc'[q] = "waiting")
          /\ (/\ p # q
              /\ pc[p] = "failed" /\ err[p] = "Deadlock"
              /\ pc[q] = "waiting" /\ idx[q] = 3
              /\ pc'[q] # "waiting")
             => (pc'[q] = "held" /\ Pending(q) \in locks'[q])]_vars

\* C20 as amended: the cyclic wait of two callers that locked r1 and r2 in
\* opposite orders is not masked.  A caller leaves it only by an error
\* (deadlock, lock wait timeout or the end of its context), its locks
\* dropped and the other still waiting with its request now grantable; the
\* deadlock error is reported to at most one of the two; and after it was
\* reported the other caller's second request is granted unless its own lock
\* wait times out or its context ends first.
UnorderedCycleNotMasked ==
    [][\A p, q \in Callers :
          /\ (CyclicWait(p, q) /\ pc'[p] # "waiting")
             => (/\ pc'[p] = "failed"
                 /\ err'[p] \in {"Deadlock", "Timeout", "Canceled"}
                 /\ locks'[p] = {}
                 /\ pc'[q] = "waiting"
                 /\ (Grantable(q, Pending(q)))')
          /\ p # q => ~(err'[p] = "Deadlock" /\ err'[q] = "Deadlock")
          /\ (/\ p # q
              /\ pc[p] = "failed" /\ err[p] = "Deadlock"
              /\ pc[q] = "waiting" /\ idx[q] = 3
              /\ pc'[q] # "waiting")
             => \/ pc'[q] = "held" /\ Pending(q) \in locks'[q]
                \/ pc'[q] = "failed" /\ err'[q] \in {"Timeout", "Canceled"}]_vars

\* one caller returned the deadlock error at its second resource and the
\* other, which locked the same two resources in the opposite order, holds
\* both
UnorderedCycleNotMaskedWitness ==
    \E p, q \in Callers :
        /\ p # q
        /\ call[p].op = "acquireTwoResourcesUnorderedWithBarrier"
        /\ call[q].op = "acquireTwoResourcesUnorderedWithBarrier"
        /\ call[p].resourceIDs = <<r1, r2>> /\ call[q].resourceIDs = <<r2, r1>>
        /\ pc[p] = "failed" /\ err[p] = "Deadlock" /\ idx[p] = 3
        /\ pc[q] = "held" /\ err[q] = "nil" /\ Cardinality(locks[q]) = 4

\* b is a bucket of the bucket space
InBucketSpace(b) == b \in Int /\ 0 <= b /\ b < lockBucketSpace

\* C21: bucket range.  The bucket of every lock target, at every level and
\* for every identifier chain (every row, every target a call requests, every
\* row lock held), is an integer b with 0 <= b < lockBucketSpace.
BucketRange ==
    /\ \A t \in rows : InBucketSpace(t.bucket)
    /\ \A p \in Callers :
          /\ \A i \in 1..Len(reqs[p]) : InBucketSpace(reqs[p][i].target.bucket)
          /\ \A l \in locks[p] : InBucketSpace(l.target.bucket)

\* a Resource-level handle is Active on user u2, whose FNV-1a sum (2966364927)
\* lies above 2^31: it holds rows of all three levels
BucketRangeWitness ==
    \E p \in Callers :
        /\ Active(p)
        /\ call[p].userID = u2
        /\ {l.target.level : l \in locks[p]} = {LevelUser, LevelAccount, LevelResource}
        /\ \E l \in locks[p] : l.target.level = LevelUser /\ l.target.bucket = 6364927

\* the targets p's call requests, in order
RequestedTargets(p) == [i \in 1..Len(reqs[p]) |-> reqs[p][i].target]

\* C22: bucket determinism.  Two calls that name the same entity request the
\* same (level, bucket) target for it, whichever caller makes them, whenever
\* they are made and whichever operation names it: two Acquire calls with the
\* same level and identifiers request the same targets, and an
\* AcquireResources call requests for its user, its account and each of its
\* resources the targets an Acquire of that resource requests.
BucketDeterminism ==
    \A p, q \in Callers :
        (p # q /\ reqs[p] # << >> /\ reqs[q] # << >> /\ IsAcquire(p))
        => /\ (/\ IsAcquire(q)
               /\ call[q].level = call[p].level
               /\ call[q].userID = call[p].userID
               /\ call[q].accountID = call[p].accountID
               /\ call[q].resourceID = call[p].resourceID)
              => RequestedTargets(q) = RequestedTargets(p)
           /\ (/\ IsAcquireResources(q)
               /\ call[p].level = LevelResource
               /\ call[q].userID = call[p].userID
               /\ call[q].accountID = call[p].accountID)
              => /\ reqs[q][1].target = reqs[p][1].target
                 /\ reqs[q][2].target = reqs[p][2].target
                 /\ \A i \in 1..Len(call[q].resourceIDs) :
                       call[q].resourceIDs[i] = call[p].resourceID
                       => \E j \in 3..Len(reqs[q]) :
                             reqs[q][j].target = reqs[p][3].target

\* while the handle of Acquire(Resource u1/a1/r2) is Active and holds the
\* resource row, an AcquireResources call that names r2 among two resources is
\* suspended on that very row
BucketDeterminismWitness ==
    \E p, q \in Callers :
        /\ p # q
        /\ IsAcquire(p) /\ call[p].level = LevelResource
        /\ call[p].resourceID = r2
        /\ Active(p)
        /\ IsAcquireResources(q) /\ Len(call[q].resourceIDs) = 2
        /\ \E i \in 1..2 : call[q].resourceIDs[i] = r2
        /\ pc[q] = "waiting"
        /\ Pending(q).target = reqs[p][3].target

\* C23: facade equivalence.  A step is a GetUserLock(u), GetAccountLock(u, a),
\* GetResourceLock(u, a, r) or GetResourcesLock(u, a, rs) call exactly when it
\* is the step of Acquire(LevelUser, u, "", ""), Acquire(LevelAccount, u, a,
\* ""), Acquire(LevelResource, u, a, r) or AcquireResources(u, a, rs): the
\* same scope, the same requests in the same order, the same result.
FacadeEquivalence ==
    [][\A p \in Callers : \A beginOK \in BOOLEAN :
          /\ \A u \in RepositoryUserInputs :
                GetUserLock(p, u, beginOK)
                <=> Acquire(p, LevelUser, u, Empty, Empty, beginOK)
          /\ \A in \in RepositoryAccountInputs :
                GetAccountLock(p, in[1], in[2], beginOK)
                <=> Acquire(p, LevelAccount, in[1], in[2], Empty, beginOK)
          /\ \A in \in RepositoryResourceInputs :
                GetResourceLock(p, in[1], in[2], in[3], beginOK)
                <=> Acquire(p, LevelResource, in[1], in[2], in[3], beginOK)
          /\ \A in \in RepositoryResourcesInputs :
                GetResourcesLock(p, in[1], in[2], in[3], beginOK)
                <=> AcquireResources(p, in[1], in[2], in[3], beginOK)]_vars

\* the handle a GetResourcesLock call returned is Active and holds the four
\* rows of AcquireResources, and a GetAccountLock call of the other caller is
\* suspended on the account row as an Acquire at Account level is
FacadeEquivalenceWitness ==
    \E p, q \in Callers :
        /\ p # q
        /\ IsAcquireResources(p) /\ Active(p) /\ Cardinality(locks[p]) = 4
        /\ IsAcquire(q) /\ call[q].level = LevelAccount
        /\ pc[q] = "waiting" /\ idx[q] = 1
        /\ Pending(q) = [target |-> reqs[p][2].target, exclusive |-> TRUE]

\* g's Lock has returned and its unlock function has not been called
LockHeld(g) == lockPc[g] = "locked"

\* the paths share a node at which one of the two Locks is exclusive: one
\* path leads through the last node of the other
TreePathsConflict(path, other) ==
    \/ Len(path) <= Len(other) /\ Prefix(other, Len(path)) = path
    \/ Len(other) <= Len(path) /\ Prefix(path, Len(other)) = other

\* C24: conflict law of the mutex tree.  A Lock on a path does not complete
\* while another caller still holds a Lock whose path shares a node at which
\* one of the two is exclusive: no two such Locks are held together.
TreeConflictLaw ==
    \A g, h \in Callers :
        (g # h /\ LockHeld(g) /\ LockHeld(h))
        => ~TreePathsConflict(lockPath[g], lockPath[h])

\* no Lock call and no unlock call is running
TreeQuiescent == \A g \in Callers : lockPc[g] \in {"idle", "locked", "unlocked"}

\* the held Locks whose path passes through node n on the way to its last node
LocksThrough(n) ==
    {g \in Callers :
        /\ LockHeld(g)
        /\ Len(n) < Len(lockPath[g])
        /\ Prefix(lockPath[g], Len(n)) = n}

\* C25: mutex-tree counters.  Whenever no call is in progress, the shared
\* count of each node equals the number of not-yet-unlocked Locks whose path
\* passes through it, and once every Lock has been unlocked every shared
\* count is 0 and every exclusive flag is false.
TreeCounters ==
    TreeQuiescent
    => /\ \A n \in TreeNodes : shared[n] = Cardinality(LocksThrough(n))
       /\ (\A g \in Callers : ~LockHeld(g))
          => \A n \in TreeNodes : shared[n] = 0 /\ ~exclusiveFlag[n]

\* q's next request names a row that p holds in a conflicting mode
HeldBy(p, q) ==
    \E l \in locks[p] :
        /\ l.target = Pending(q).target
        /\ ModesConflict(l.exclusive, Pending(q).exclusive)

\* C26: hold while waiting.  While a call is suspended on target i it holds
\* every target it was granted before, it keeps them for as long as it stays
\* suspended, and they block the others: a call whose next request conflicts
\* with one of them is not granted that request.
HoldWhileWaiting ==
    [][\A p \in AllCallers :
          pc[p] = "waiting"
          => /\ locks[p] = {reqs[p][j] : j \in 1..idx[p]}
             /\ pc'[p] = "waiting" => locks'[p] = locks[p]
             /\ \A q \in AllCallers \ {p} :
                   (InProgress(q) /\ HeldBy(p, q)) => idx'[q] = idx[q]]_vars

\* the handle of Acquire(Account u1/a1) is Active, an Acquire(Resource
\* u1/a1/..) is suspended on the account row holding the user row Shared, and
\* a third caller's Acquire(User u1) is suspended on the user row
HoldWhileWaitingWitness ==
    \E a, b, c \in AllCallers :
        /\ a # b /\ b # c /\ a # c
        /\ IsAcquire(a) /\ call[a].level = LevelAccount /\ Active(a)
        /\ IsAcquire(b) /\ call[b].level = LevelResource
        /\ pc[b] = "waiting" /\ idx[b] = 1 /\ HeldBy(a, b)
        /\ IsAcquire(c) /\ call[c].level = LevelUser
        /\ pc[c] = "waiting" /\ idx[c] = 0 /\ HeldBy(b, c)

NoInternalRetry ==
    [][\A p \in Callers :
          /\ pc[p] = "failed"
             => \/ pc'[p] = "idle"
                \/ /\ pc'[p] = "failed"
                   /\ idx'[p] = idx[p]
                   /\ locks'[p] = {}
                   /\ tx'[p] = tx[p] /\ tx[p] # "open"
                   /\ \A i \in 1..Len(waitq') : waitq'[i] # p
          /\ InProgress(p)
             => /\ idx'[p] >= idx[p]
                /\ pc'[p] \in {"acquiring", "waiting", "held", "failed"}
                /\ pc'[p] = "failed"
                   => (tx'[p] # "open" /\ locks'[p] = {} /\ idx'[p] = idx[p])
          /\ (pc[p] = "waiting" /\ pc'[p] = "acquiring") => idx'[p] = idx[p] + 1
          /\ (tx'[p] = "open" /\ tx[p] # "open") => pc[p] = "idle"]_vars

\* each kind of failure has stopped a call part of the way down its path, after
\* a grant, while another call is live
NoInternalRetryWitness ==
    \E p, q \in Callers :
        /\ p # q
        /\ pc[p] = "failed"
        /\ err[p] \in {"Deadlock", "Timeout", "Canceled", "Fault"}
        /\ idx[p] >= 1 /\ idx[p] < Len(reqs[p])
        /\ tx[p] = "done" /\ locks[p] = {}
        /\ Active(q)

\* C29: mutual exclusion.  In every reachable state, two distinct scopes (an
\* Active handle or a call in progress, of Acquire or of AcquireResources) hold
\* a common lock target only if both hold it Shared.
MutualExclusion ==
    \A p, q \in Callers :
        (p # q /\ Live(p) /\ Live(q))
        => \A l \in locks[p] : \A m \in locks[q] :
               l.target = m.target => (~l.exclusive /\ ~m.exclusive)

\* an Active handle on one resource and an AcquireResources call in progress
\* on another share the user and account rows, each holding its own Exclusive
\* row
MutualExclusionWitness ==
    \E p, q \in Callers :
        /\ p # q
        /\ Active(p) /\ IsAcquire(p) /\ call[p].level = LevelResource
        /\ InProgress(q) /\ IsAcquireResources(q) /\ idx[q] >= 3
        /\ \E l \in locks[p] : l.exclusive
        /\ \E m \in locks[q] : m.exclusive
        /\ \E l \in locks[p] : \E m \in locks[q] : l.target = m.target

\* p's handle was returned by a successful call and Release has not been
\* called on it
Unreleased(p) == pc[p] = "held" /\ handle[p] = "tx" /\ rel[p] = "none"

\* C30: no lock leak.  Every row lock held in the substrate belongs to the
\* transaction of a returned handle that is not yet released or of a call
\* still in progress; when no call is in progress and no returned handle is
\* unreleased, the substrate holds no lock.
NoLockLeak ==
    /\ \A p \in AllCallers : locks[p] # {} => (Unreleased(p) \/ InProgress(p))
    /\ (\A p \in AllCallers : ~InProgress(p) /\ ~Unreleased(p))
       => (\A p \in AllCallers : locks[p] = {}) /\ waitq = << >>

\* nothing is in progress or unreleased after one handle was released with its
\* transaction open and another call failed part of the way down its path
NoLockLeakWitness ==
    /\ \A p \in AllCallers : ~InProgress(p) /\ ~Unreleased(p)
    /\ \E p, q \in Callers :
          /\ pc[p] = "released" /\ rel[p] = "open" /\ Len(reqs[p]) >= 2
          /\ pc[q] = "failed" /\ idx[q] >= 1 /\ tx[q] = "done"

\* p's AcquireResources call names two leaves that resolve to one target: the
\* same ID twice, or two IDs with the same bucket
RepeatedLeaf(p) ==
    /\ IsAcquireResources(p)
    /\ tx[p] # "none"
    /\ Len(call[p].resourceIDs) = 2
    /\ LeafTarget(p, call[p].resourceIDs[1]) = LeafTarget(p, call[p].resourceIDs[2])

\* C31: no self-blocking in AcquireResources.  A call whose list names one
\* target twice requests it twice in its one transaction (nothing removes the
\* repetition), is never suspended on a target it already holds, and its
\* second request for the target can be granted whatever the other callers
\* hold or wait for.
NoSelfBlocking ==
    \A p \in Callers :
        /\ RepeatedLeaf(p)
           => /\ Len(reqs[p]) = 4
              /\ reqs[p][3] = reqs[p][4]
              /\ (InProgress(p) /\ idx[p] = 3) => Grantable(p, Pending(p))
        /\ pc[p] = "waiting" => \A l \in locks[p] : l.target # Pending(p).target

\* calls with a repeated ID and with two colliding IDs have returned handles
\* that hold three rows for four requests, and one of them passed its second
\* request for the target while another caller was queued for that target
NoSelfBlockingWitness ==
    \E p, q \in Callers :
        /\ p # q
        /\ RepeatedLeaf(p) /\ Active(p) /\ idx[p] = 4 /\ Cardinality(locks[p]) = 3
        /\ call[p].resourceIDs[1] # call[p].resourceIDs[2]
        /\ pc[q] = "waiting" /\ Pending(q).target = reqs[p][4].target

\* C32: missing target row.  A lock request for a target whose row does not
\* exist fails at once with the error of the query: the call is neither
\* suspended nor granted the target, the targets granted earlier in the call
\* are released with its transaction, and no handle is returned.  No caller
\* ever holds or waits for a row that does not exist.
MissingRowFails ==
    [][\A p \in Callers :
          /\ (pc[p] = "acquiring" /\ ~ctxDone[p] /\ Pending(p).target \notin rows
              /\ <<pc[p], idx[p]>> # <<pc'[p], idx'[p]>>)
             => /\ pc'[p] = "failed"
                /\ err'[p] = "NoRows"
                /\ handle'[p] = "nil"
                /\ locks'[p] = {}
                /\ tx'[p] = "done"
                /\ \A i \in 1..Len(waitq') : waitq'[i] # p
          /\ \A l \in locks'[p] : l.target \in rows
          /\ pc'[p] = "waiting" => Pending(p).target \in rows
          /\ (pc'[p] = "held" /\ handle'[p] = "tx")
             => \A i \in 1..Len(reqs'[p]) : reqs'[p][i].target \in rows]_vars

\* a call has failed on a missing row after two targets of its path had been
\* granted; it holds nothing and has no handle
MissingRowFailsWitness ==
    \E p \in Callers :
        /\ pc[p] = "failed" /\ err[p] = "NoRows"
        /\ idx[p] = 2 /\ reqs[p][3].target \notin rows
        /\ locks[p] = {} /\ handle[p] = "nil" /\ tx[p] = "done"

\* for every user, account and resource of the model, the requests of
\* AcquireResources on the one-element list are those of Acquire at
\* LevelResource
SingletonRequestsAgree ==
    \A u \in UserIDs, a \in AccountIDs, r \in ResourceIDs :
        AcquireResourcesRequests(u, a, <<r>>)
            = AcquireRequests(lockKeys(LevelResource, u, a, r).keys)

\* q's call is AcquireResources on the one-element list of the resource that
\* p's Acquire at LevelResource names
SingletonOf(q, p) ==
    /\ IsAcquire(p) /\ call[p].level = LevelResource /\ tx[p] # "none"
    /\ IsAcquireResources(q) /\ tx[q] # "none"
    /\ call[q].userID = call[p].userID
    /\ call[q].accountID = call[p].accountID
    /\ call[q].resourceIDs = <<call[p].resourceID>>

\* C33: singleton equivalence.  AcquireResources(u, a, [r]) issues the same
\* ordered sequence of (target, mode) requests as Acquire(LevelResource, u, a,
\* r), so each of the two is refused the rows the other holds.
SingletonEquivalence ==
    /\ SingletonRequestsAgree
    /\ \A p, q \in Callers :
          SingletonOf(q, p)
          => /\ reqs[q] = reqs[p]
             /\ (Active(p) /\ InProgress(q)) => idx[q] < Len(reqs[q])
             /\ (Active(q) /\ InProgress(p)) => idx[p] < Len(reqs[p])

\* AcquireResources on [r] is suspended at its last request behind the Active
\* handle of Acquire at LevelResource on r
SingletonEquivalenceWitness ==
    \E p, q \in Callers :
        /\ SingletonOf(q, p)
        /\ Active(p)
        /\ pc[q] = "waiting" /\ idx[q] = 2 /\ Len(reqs[q]) = 3

\* the entity a call names: its level and the identifiers down to that level
EntityOf(p) ==
    <<call[p].level,
      SubSeq(<<call[p].userID, call[p].accountID, call[p].resourceID>>,
             1, call[p].level + 1)>>

\* one identifier chain continues the other: the entities are the same or an
\* ancestor/descendant pair
ChainsRelated(e, f) ==
    \A i \in 1..(IF Len(e[2]) < Len(f[2]) THEN Len(e[2]) ELSE Len(f[2])) :
        e[2][i] = f[2][i]

\* C34: key composition of the string-key Manager is injective.  Two calls
\* that name different entities never resolve to the same lock key, whatever
\* the identifiers (the separator ':' included), and a call waits only for a
\* caller whose entity is the same as its own or an ancestor or descendant of
\* it.
KeyCompositionInjective ==
    \A p, q \in Callers :
        (p # q /\ tx[p] # "none" /\ tx[q] # "none")
        => /\ EntityOf(p) # EntityOf(q)
              => reqs[p][Len(reqs[p])].target # reqs[q][Len(reqs[q])].target
           /\ WaitsFor(p, q) => ChainsRelated(EntityOf(p), EntityOf(q))

\* the identifiers a call at the given level depends on
RelevantIDs(level, userID, accountID) ==
    IF level = LevelUser THEN <<userID>> ELSE <<userID, accountID>>

\* both lockKeys functions return the same result for two calls at LevelUser or
\* LevelAccount that agree on the identifiers down to the level
LowerIdentifiersIgnored ==
    \A in, jn \in LowerLevelInputs :
        (in[1] = jn[1] /\ RelevantIDs(in[1], in[2], in[3]) = RelevantIDs(jn[1], jn[2], jn[3]))
        => /\ lockKeys(in[1], in[2], in[3], in[4]) = lockKeys(jn[1], jn[2], jn[3], jn[4])
           /\ lockKeysOfStrings(in[1], in[2], in[3], in[4])
                = lockKeysOfStrings(jn[1], jn[2], jn[3], jn[4])

\* C35: irrelevant identifiers are ignored.  Two Acquire calls at LevelUser
\* that pass the same userID, or at LevelAccount the same userID and
\* accountID, have the same validation outcome and request the same targets in
\* the same modes, whatever they pass for the identifiers below the level.
IrrelevantIdentifiersIgnored ==
    /\ LowerIdentifiersIgnored
    /\ \A p, q \in Callers :
          (/\ db = "open"
           /\ IsAcquire(p) /\ IsAcquire(q)
           /\ pc[p] # "idle" /\ pc[q] # "idle"
           /\ call[p].level = call[q].level
           /\ call[p].level \in {LevelUser, LevelAccount}
           /\ RelevantIDs(call[p].level, call[p].userID, call[p].accountID)
                = RelevantIDs(call[q].level, call[q].userID, call[q].accountID))
          => /\ (err[p] = "Validation") <=> (err[q] = "Validation")
             /\ (tx[p] # "none" /\ tx[q] # "none") => reqs[p] = reqs[q]

\* Acquire(LevelUser, u1, "", "") waits for the row held by the handle of
\* Acquire(LevelUser, u1, a1, r1)
IrrelevantIdentifiersIgnoredWitness ==
    \E p, q \in Callers :
        /\ Active(p) /\ call[p].level = LevelUser
        /\ call[p].accountID = a1 /\ call[p].resourceID = r1
        /\ call[q].level = LevelUser /\ call[q].userID = call[p].userID
        /\ call[q].accountID = Empty /\ call[q].resourceID = Empty
        /\ pc[q] = "waiting" /\ reqs[q] = reqs[p]

\* the held Locks whose path ends at node n
LocksAt(n) == {g \in Callers : LockHeld(g) /\ lockPath[g] = n}

\* C36: leaf flag of the mutex tree.  Whenever no Lock and no unlock call is
\* running, the exclusive flag of a node is true exactly when at least one
\* Lock whose path ends at the node has been taken and not yet unlocked.
TreeLeafFlag ==
    TreeQuiescent
    => \A n \in TreeNodes : exclusiveFlag[n] <=> (LocksAt(n) # {})

\* g is on a node of its path below the root, inside Lock or holding it
OnNode(g) == lockPc[g] \in {"incr", "incrWrite", "leaf", "locked"}

\* C37: node creation in the mutex tree.  However the Lock calls interleave,
\* one LockNode at most is made for a name, a name is in the parent's map
\* exactly when its node was made, and every caller goes on with the node of
\* the map, so every counter update is made on the node the map holds.
TreeNodeCreation ==
    /\ \A n \in TreeNodes : nodeCount[n] <= 1 /\ (n \in children <=> nodeCount[n] = 1)
    /\ \A g \in Callers :
          OnNode(g) => lockChild[g] = nodeCount[Prefix(lockPath[g], lockI[g])]

\* two callers found the same name missing: one has made the node and gone on
\* with it, the other is about to look the name up again under the write lock
TreeNodeCreationWitness ==
    \E g, h \in Callers :
        /\ g # h
        /\ lockPc[g] = "create" /\ lockI[g] = 0
        /\ OnNode(h) /\ lockI[h] = 1
        /\ Prefix(lockPath[g], 1) = Prefix(lockPath[h], 1)

\* C38: AcquireResources leaves the caller's resourceIDs list unchanged.  At
\* every moment of a call and after it, returned with a handle or with an
\* error, the caller's list holds the elements it passed, in the order it
\* passed them.
CallerListUnchanged ==
    \A p \in Callers :
        IsAcquireResources(p) => callerIDs[p] = call[p].resourceIDs

\* calls that passed the list [r2, r1] have ended, one with a handle and one
\* with an error after its first grant: both lists are still [r2, r1], and
\* the handle's requests name r1 before r2
CallerListUnchangedWitness ==
    \E p, q \in Callers :
        /\ IsAcquireResources(p) /\ Active(p)
        /\ call[p].resourceIDs = <<r2, r1>> /\ callerIDs[p] = <<r2, r1>>
        /\ reqs[p][3].target = LeafTarget(p, r1)
        /\ IsAcquireResources(q) /\ pc[q] = "failed" /\ idx[q] >= 1
        /\ call[q].resourceIDs = <<r2, r1>> /\ callerIDs[q] = <<r2, r1>>

====
